---- MODULE Spec2Model ----
(***************************************************************************)
(* GameTest: deterministic input record / replay framework.                *)
(*                                                                         *)
(* The module models the session state g_gmt (src/src/Internal.h) and the  *)
(* framework entry points that act on it: GMT_Update_, GMT_Reset_,         *)
(* GMT_Quit_, GMT_Init_ (src/src/GameTest.c), GMT_SyncSignal_              *)
(* (src/src/Signal.c), GMT_Pin_ (src/src/Pin.c), GMT_Track_                *)
(* (src/src/Track.c), GMT_Assert_ (src/src/Assert.c) and the recorder /    *)
(* loader / injector of src/src/Record.c.                                  *)
(*                                                                         *)
(* Time is the platform clock GMT_Platform_GetTime in whole clock units.   *)
(* An input snapshot (GMT_InputState) is an abstract value; value 0 is the *)
(* all-zero snapshot that memset / GMT_InputState_Clear produce.           *)
(* A Pin/Track payload is <<size, bytes>>: its length and the byte string  *)
(* of that length, the latter an integer (for the float kinds, the number  *)
(* in units of 1/UnitsPerEpsilon of the comparison epsilon).               *)
(*                                                                         *)
(* The session lock is modelled by the order in which a handler locks,     *)
(* unlocks and calls out (LockDepth, CallsUnderLock). The file header is   *)
(* the pair GMT_Record_OpenForWrite stores and GMT_Record_LoadReplay       *)
(* compares. The specifications of the replay engine (Spec, LiveSpec,      *)
(* SpecPin, SpecTrack, SpecSession, SpecClock, SpecBatch, SpecAssert)      *)
(* start from a trace the loader has accepted; SpecHeader runs the loader  *)
(* on the header the recorder wrote, SpecLoad runs its scan and its        *)
(* allocations on whole, cut and damaged files; SpecTrace follows what a   *)
(* recording writes. SpecFull lets assertions fail without end, SpecRace   *)
(* runs the injector thread next to GMT_Update_, SpecData makes Pin and    *)
(* Track calls the helpers turn away.                                      *)
(*                                                                         *)
(* Not modelled: record_*_count and logging.                               *)
(***************************************************************************)
EXTENDS Integers, Sequences, FiniteSets, TLC

\* ------------------------------------------------------------------ bounds

\* Last value of the platform clock the model explores.
MaxTime == 3
\* Largest timestamp of a record of a generated trace.
MaxTs == 1
\* Most INPUT / SIGNAL records of a generated trace.
MaxInputs == 3
MaxSignals == 2
\* Most Pin/Track calls and most updates of one run (record or replay).
MaxCalls == 2
MaxFrames == 1
\* Calls of one session.
MaxOps == 4
\* Records of a trace in the runs checked for progress.
MaxLiveRecords == 2
\* Largest value of frame_index the model tells apart.
MaxFrameIndex == 1
\* Float payloads are counted in units of 1/UnitsPerEpsilon of the epsilon.
UnitsPerEpsilon == 2

\* Input snapshots: 0 is the empty snapshot.
Snapshots == {0, 1}
\* Signal ids the application emits.
SignalIds == {1, 2}
\* Pin/Track keys.
Keys == {1, 2}

\* --------------------------------------------------------------- constants

GMT__MAX_INJECT_BATCH == 8
GMT_MAX_FAILED_ASSERTIONS == 1024
GMT_MAX_DATA_RECORD_PAYLOAD == 256
\* 0x54534D47
GMT_RECORD_MAGIC == 1414745415
GMT_RECORD_VERSION == 2
\* The timestamp of an exhausted stream (1e18 in the source): any value
\* above every time the model reaches behaves the same.
Far == 1000000000

\* ------------------------------------------------------------------- state

VARIABLES
  initialized, mode, setup, frame_index,
  now,
  record_start_time, replay_time_offset, signal_wait_start,
  waiting_for_signal, waiting_signal_id,
  replay_inputs, replay_signals, replay_pins, replay_tracks,
  replay_refs,   \* the decoded arrays whose reference is not NULL
  replay_input_cursor, replay_signal_cursor,
  replay_prev_input, replay_current_input,
  record_file, file, header, record_prev_input,
  pin_counter, track_counter,
  assertion_fire_count, failed_assertions, total_assertion_count,
  seen_assertion_sites, test_failed,
  \* observations of the environment (not fields of g_gmt)
  injected,      \* GMT_Platform_InjectInput calls since the session (re)started
  fail_calls,    \* invocations of the fail callback
  signal_calls,  \* invocations of the signal callback
  trigger_calls, \* invocations of the assertion trigger callback
  held_calls,    \* external calls made while the caller held the session lock
  aborted,       \* the default fail action ended the process
  run_log,       \* the calls of the current run, in order
  rec_log,       \* the same for the finished record run
  last           \* the last Init / Pin / Track call and what it did

clockVars == <<now>>
timingVars == <<record_start_time, replay_time_offset, signal_wait_start>>
gateVars == <<waiting_for_signal, waiting_signal_id>>
arrayVars == <<replay_inputs, replay_signals, replay_pins, replay_tracks,
               replay_refs>>
cursorVars == <<replay_input_cursor, replay_signal_cursor>>
replayInputVars == <<replay_prev_input, replay_current_input>>
recordVars == <<record_file, file, header, record_prev_input>>
counterVars == <<pin_counter, track_counter>>
assertVars == <<assertion_fire_count, failed_assertions, total_assertion_count,
                seen_assertion_sites, test_failed, fail_calls, trigger_calls, aborted>>
sessionVars == <<initialized, mode, setup>>
callVars == <<signal_calls, held_calls>>
logVars == <<run_log, rec_log>>

\* The fields of g_gmt.
stateVars == <<sessionVars, frame_index, timingVars, gateVars, arrayVars, cursorVars,
               replayInputVars, record_file, record_prev_input, counterVars,
               assertion_fire_count, failed_assertions, total_assertion_count,
               seen_assertion_sites, test_failed>>

vars == <<stateVars, clockVars, file, header, fail_calls, trigger_calls, callVars,
          aborted, injected, logVars, last>>

\* ----------------------------------------------------------------- helpers

GMT_InputState_Clear == 0

GMT_InputState_Compare(a, b) == a = b

\* GMT_KeyCounter_Reset: every key's call ordinal back to 0.
GMT_KeyCounter_Reset == [k \in Keys |-> 0]

\* GMT_KeyCounter_Next: the ordinal of this call for the key, then one more.
GMT_KeyCounter_Next(counter, key) ==
  [index |-> counter[key], counter |-> [counter EXCEPT ![key] = @ + 1]]

\* A scan that goes on behind the END tag.
BeforeEnd_All(f) == SelectSeq(f, LAMBDA r : r.tag # "END")

\* The records of a trace file that precede its first END tag, by kind and in
\* file order (second pass of the loader).
RECURSIVE BeforeEnd(_)
BeforeEnd(f) ==
  IF f = <<>> \/ Head(f).tag = "END" THEN <<>>
  ELSE <<Head(f)>> \o BeforeEnd(Tail(f))

OfTag(f, tag) == SelectSeq(BeforeEnd(f), LAMBDA r : r.tag = tag)

DecodedInputs(f) ==
  LET s == OfTag(f, "INPUT")
  IN [i \in 1..Len(s) |-> [timestamp |-> s[i].timestamp, input |-> s[i].input]]

DecodedSignals(f) ==
  LET s == OfTag(f, "SIGNAL")
  IN [i \in 1..Len(s) |-> [timestamp |-> s[i].timestamp, signal_id |-> s[i].signal_id]]

DecodedData(f, tag) ==
  LET s == OfTag(f, tag)
  IN [i \in 1..Len(s) |->
        [key |-> s[i].key, index |-> s[i].index, size |-> s[i].size, data |-> s[i].data]]

\* GMT_Record_FindDecoded: position of the first entry with (key, index), 0 for NULL.
RECURSIVE FindFrom(_, _, _, _)
FindFrom(arr, i, key, index) ==
  IF i > Len(arr) THEN 0
  ELSE IF arr[i].key = key /\ arr[i].index = index THEN i
  ELSE FindFrom(arr, i + 1, key, index)

GMT_Record_FindDecoded(arr, key, index) == FindFrom(arr, 1, key, index)


\* ---------------------------------------------------------------- recorder

\* A recorder that writes every capture.
WriteInput_NoCompare(captured) ==
  IF ~record_file THEN [file |-> file, prev |-> record_prev_input]
  ELSE [file |-> Append(file, [tag |-> "INPUT",
                               timestamp |-> now - record_start_time,
                               input |-> captured]),
        prev |-> captured]

\* GMT_Record_WriteInput: the trace and the last-written snapshot after one
\* capture of `captured` at the current time.
GMT_Record_WriteInput(captured) ==
  IF ~record_file THEN [file |-> file, prev |-> record_prev_input]
  ELSE IF GMT_InputState_Compare(captured, record_prev_input)
       THEN [file |-> file, prev |-> record_prev_input]
  ELSE [file |-> Append(file, [tag |-> "INPUT",
                               timestamp |-> now - record_start_time,
                               input |-> captured]),
        prev |-> captured]

\* GMT_Record_WriteSignal
GMT_Record_WriteSignal(signal_id) ==
  IF ~record_file THEN file
  ELSE Append(file, [tag |-> "SIGNAL", timestamp |-> now - record_start_time,
                     signal_id |-> signal_id])

\* GMT_Record_WriteDataRecord
GMT_Record_WriteDataRecord(tag, key, index, size, data) ==
  IF ~record_file THEN file
  ELSE IF size > GMT_MAX_DATA_RECORD_PAYLOAD THEN file
  ELSE Append(file, [tag |-> tag, key |-> key, index |-> index,
                     size |-> size, data |-> data])

\* A close that writes no END tag.
CloseWrite_NoEnd == file

\* GMT_Record_CloseWrite: the END tag, then the handle is closed.
GMT_Record_CloseWrite ==
  IF ~record_file THEN file ELSE Append(file, [tag |-> "END"])

\* ---------------------------------------------------------------- injector

\* A replay clock that leaves the offset out.
ReplayTime_NoOffset(t) == t - record_start_time

\* replay_time at platform time t.
ReplayTime(t) == (t - record_start_time) - replay_time_offset

\* A tie-break that lets an input through at the signal's own timestamp.
SignalFirst_Strict(have_signal, st, it) == have_signal /\ st < it

\* Signal wins ties with an input record.
SignalFirst(have_signal, st, it) == have_signal /\ st <= it

\* The loop of GMT__CollectPendingInjections. s.out holds the pairs
\* out_new[]/out_prev[] collected so far (with the record's position).
RECURSIVE CollectLoop(_, _)
CollectLoop(s, replay_time) ==
  LET count == Len(s.out)
      have_input == s.cursor < Len(replay_inputs)
      have_signal == replay_signal_cursor < Len(replay_signals)
      it == IF have_input THEN replay_inputs[s.cursor + 1].timestamp ELSE Far
      st == IF have_signal THEN replay_signals[replay_signal_cursor + 1].timestamp ELSE Far
  IN IF ~(count < GMT__MAX_INJECT_BATCH) THEN s
     ELSE IF ~have_input /\ ~have_signal THEN s
     ELSE IF SignalFirst(have_signal, st, it)
          THEN IF st > replay_time THEN s
               ELSE [s EXCEPT !.waiting = TRUE,
                              !.wid = replay_signals[replay_signal_cursor + 1].signal_id,
                              !.wstart = now]
     ELSE IF it > replay_time THEN s
     ELSE LET di == replay_inputs[s.cursor + 1]
              out_prev == IF count = 0 THEN s.prev ELSE s.out[count].new
          IN CollectLoop([s EXCEPT !.out = Append(@, [idx |-> s.cursor + 1,
                                                       new |-> di.input,
                                                       prev |-> out_prev]),
                                   !.prev = di.input,
                                   !.cur = di.input,
                                   !.cursor = @ + 1],
                         replay_time)

\* A collector that hands over only the last pair of a batch.
Collect_LastOnly ==
  LET s0 == [cursor |-> replay_input_cursor, prev |-> replay_prev_input,
             cur |-> replay_current_input, waiting |-> waiting_for_signal,
             wid |-> waiting_signal_id, wstart |-> signal_wait_start, out |-> <<>>]
      c == IF waiting_for_signal THEN s0 ELSE CollectLoop(s0, ReplayTime(now))
  IN [c EXCEPT !.out = IF Len(@) <= 1 THEN @
                       ELSE <<[idx |-> @[Len(@)].idx, new |-> @[Len(@)].new,
                               prev |-> replay_prev_input]>>]

\* A collector that, at the batch cap, moves the cursor past every record
\* that is due.
Collect_DropExcess ==
  LET s0 == [cursor |-> replay_input_cursor, prev |-> replay_prev_input,
             cur |-> replay_current_input, waiting |-> waiting_for_signal,
             wid |-> waiting_signal_id, wstart |-> signal_wait_start, out |-> <<>>]
      c == IF waiting_for_signal THEN s0 ELSE CollectLoop(s0, ReplayTime(now))
      due == {i \in 1..Len(replay_inputs) : replay_inputs[i].timestamp <= ReplayTime(now)}
  IN IF Len(c.out) = GMT__MAX_INJECT_BATCH
     THEN [c EXCEPT !.cursor = Cardinality(due \cup 1..c.cursor)]
     ELSE c

GMT__CollectPendingInjections ==
  LET s0 == [cursor |-> replay_input_cursor, prev |-> replay_prev_input,
             cur |-> replay_current_input, waiting |-> waiting_for_signal,
             wid |-> waiting_signal_id, wstart |-> signal_wait_start, out |-> <<>>]
  IN IF waiting_for_signal THEN s0 ELSE CollectLoop(s0, ReplayTime(now))

\* ----------------------------------------------------------------- session

\* The test every entry point makes first: a session exists and its mode is
\* not Disabled.
Active_IgnoresMode == initialized

Active == initialized /\ mode # "DISABLED"

\* An absent configuration (a null GMT_Setup pointer).
NullSetup == [null |-> TRUE]

ZeroSetup == [mode |-> "DISABLED", fail_assertion_trigger_count |-> 0,
              fail_callback |-> FALSE, signal_callback |-> FALSE,
              assertion_trigger_callback |-> FALSE]

\* No header on disk.
NoHeader == [magic |-> 0, version |-> 0]

\* memset(&g_gmt, 0, sizeof(g_gmt))
Memset0 ==
  /\ initialized' = FALSE /\ mode' = "DISABLED" /\ setup' = ZeroSetup
  /\ frame_index' = 0
  /\ record_start_time' = 0 /\ replay_time_offset' = 0 /\ signal_wait_start' = 0
  /\ waiting_for_signal' = FALSE /\ waiting_signal_id' = 0
  /\ replay_inputs' = <<>> /\ replay_signals' = <<>>
  /\ replay_pins' = <<>> /\ replay_tracks' = <<>> /\ replay_refs' = {}
  /\ replay_input_cursor' = 0 /\ replay_signal_cursor' = 0
  /\ replay_prev_input' = GMT_InputState_Clear
  /\ replay_current_input' = GMT_InputState_Clear
  /\ record_file' = FALSE /\ record_prev_input' = GMT_InputState_Clear
  /\ pin_counter' = GMT_KeyCounter_Reset /\ track_counter' = GMT_KeyCounter_Reset
  /\ assertion_fire_count' = 0 /\ failed_assertions' = <<>>
  /\ total_assertion_count' = 0 /\ seen_assertion_sites' = {}
  /\ test_failed' = FALSE

\* g_gmt as the loader of the process leaves it (all zero), the clock at 0,
\* nothing observed yet.
ZeroState ==
  /\ initialized = FALSE /\ mode = "DISABLED" /\ setup = ZeroSetup
  /\ frame_index = 0
  /\ now = 0
  /\ record_start_time = 0 /\ replay_time_offset = 0 /\ signal_wait_start = 0
  /\ waiting_for_signal = FALSE /\ waiting_signal_id = 0
  /\ replay_inputs = <<>> /\ replay_signals = <<>>
  /\ replay_pins = <<>> /\ replay_tracks = <<>> /\ replay_refs = {}
  /\ replay_input_cursor = 0 /\ replay_signal_cursor = 0
  /\ replay_prev_input = GMT_InputState_Clear
  /\ replay_current_input = GMT_InputState_Clear
  /\ record_file = FALSE /\ record_prev_input = GMT_InputState_Clear
  /\ pin_counter = GMT_KeyCounter_Reset /\ track_counter = GMT_KeyCounter_Reset
  /\ assertion_fire_count = 0 /\ failed_assertions = <<>>
  /\ total_assertion_count = 0 /\ seen_assertion_sites = {}
  /\ test_failed = FALSE
  /\ injected = <<>> /\ fail_calls = 0 /\ signal_calls = 0 /\ trigger_calls = 0
  /\ held_calls = {} /\ aborted = FALSE
  /\ run_log = <<>> /\ rec_log = <<>>
  /\ last = [op |-> "None"]

\* The session lock. A handler is a sequence of steps: "lock", "unlock" and
\* the names of the external calls it makes in between and after.
RECURSIVE LockDepth(_)
LockDepth(steps) ==
  IF steps = <<>> THEN 0
  ELSE LET d == LockDepth(SubSeq(steps, 1, Len(steps) - 1))
           e == steps[Len(steps)]
       IN IF e = "lock" THEN d + 1 ELSE IF e = "unlock" THEN d - 1 ELSE d

\* The external calls of `steps` made while the lock is held.
CallsUnderLock(steps) ==
  {steps[i] : i \in {j \in 1..Len(steps) :
                       /\ steps[j] \notin {"lock", "unlock"}
                       /\ LockDepth(SubSeq(steps, 1, j - 1)) > 0}}

\* The header GMT_Record_OpenForWrite stores: the constants assigned to the
\* two uint16_t fields of GMT_FileHeader.
U16(x) == x % 65536

GMT_Record_OpenForWrite == [magic |-> U16(GMT_RECORD_MAGIC),
                            version |-> U16(GMT_RECORD_VERSION)]

\* GMT_Record_LoadReplay, its result: the file was read and its header
\* fields, promoted to the type of the constants, equal them.
GMT_Record_LoadReplay(hdr, readable) ==
  readable /\ hdr.magic = GMT_RECORD_MAGIC /\ hdr.version = GMT_RECORD_VERSION

\* The decoded arrays in the order the loader allocates them, and the tag
\* of the records each one holds.
ArrayNames == <<"inputs", "signals", "pins", "tracks">>
TagOf == [inputs |-> "INPUT", signals |-> "SIGNAL", pins |-> "PIN", tracks |-> "TRACK"]
AllAllocs == Len(ArrayNames)

\* The first pass of the loader stops at a record before the END tag that is
\* cut short by the end of the file ("CUT") or carries no known tag.
Malformed(f) ==
  \E i \in 1..Len(BeforeEnd(f)) :
     BeforeEnd(f)[i].tag \notin {"INPUT", "SIGNAL", "PIN", "TRACK"}

\* The arrays the loader allocates for f: those with a record to hold.
Needed(f) == SelectSeq(ArrayNames, LAMBDA a : OfTag(f, TagOf[a]) # <<>>)

\* GMT_Record_LoadReplay after the header: count, allocate, decode. `valid`
\* is the result of reading the file and validating its header, `allocs`
\* the number of array allocations GMT_Alloc grants. On a failure the
\* counts stay 0 and the arrays allocated so far stay referenced.
GMT_Record_LoadArrays(f, valid, allocs) ==
  LET scanned == valid /\ ~Malformed(f)
      need == IF scanned THEN Needed(f) ELSE <<>>
      ok == scanned /\ allocs >= Len(need)
  IN [ok |-> ok,
      refs |-> {need[i] : i \in {j \in 1..Len(need) : j <= allocs}},
      inputs |-> IF ok THEN DecodedInputs(f) ELSE <<>>,
      signals |-> IF ok THEN DecodedSignals(f) ELSE <<>>,
      pins |-> IF ok THEN DecodedData(f, "PIN") ELSE <<>>,
      tracks |-> IF ok THEN DecodedData(f, "TRACK") ELSE <<>>]

\* A free that leaves the cursors where they are.
FreeReplay_KeepsCursors ==
  [inputs |-> <<>>, signals |-> <<>>, pins |-> <<>>, tracks |-> <<>>, refs |-> {},
   input_cursor |-> replay_input_cursor, signal_cursor |-> replay_signal_cursor]

\* GMT_Record_FreeReplay: the arrays are released, counts and cursors zeroed.
GMT_Record_FreeReplay ==
  [inputs |-> <<>>, signals |-> <<>>, pins |-> <<>>, tracks |-> <<>>, refs |-> {},
   input_cursor |-> 0, signal_cursor |-> 0]

\* An init that does not look at the result of the file operation.
InitOutcome_IgnoresIo(cfg, io_ok) ==
  IF cfg = NullSetup THEN "null"
  ELSE IF initialized THEN "already"
  ELSE IF cfg.mode = "DISABLED" THEN "disabled"
  ELSE "ok"

\* An init that does not look at the initialized flag.
InitOutcome_Reinit(cfg, io_ok) ==
  IF cfg = NullSetup THEN "null"
  ELSE IF cfg.mode = "DISABLED" THEN "disabled"
  ELSE IF ~io_ok THEN "failed"
  ELSE "ok"

\* The path GMT_Init_ takes. io_ok is the result of the file operation of
\* the mode: GMT_Record_OpenForWrite or GMT_Record_LoadReplay.
InitOutcome(cfg, io_ok) ==
  IF cfg = NullSetup THEN "null"
  ELSE IF initialized THEN "already"
  ELSE IF cfg.mode = "DISABLED" THEN "disabled"
  ELSE IF ~io_ok THEN "failed"
  ELSE "ok"

\* GMT_Init_
GMT_Init_(cfg, io_ok) ==
  LET path == InitOutcome(cfg, io_ok)
      rec == path = "ok" /\ cfg.mode = "RECORD"
      rep == path = "ok" /\ cfg.mode = "REPLAY"
  IN /\ ~aborted
     /\ last' = [op |-> "Init", ret |-> path \in {"disabled", "ok"}]
     /\ UNCHANGED <<clockVars, fail_calls, trigger_calls, callVars, aborted>>
     /\ CASE path \in {"null", "already"} ->
               UNCHANGED <<stateVars, file, header, injected>>
          [] path = "failed" ->
               Memset0 /\ UNCHANGED <<file, header, injected>>
          [] path = "disabled" ->
               /\ initialized' = TRUE /\ mode' = "DISABLED" /\ setup' = cfg
               /\ frame_index' = 0
               /\ record_start_time' = 0 /\ replay_time_offset' = 0
               /\ signal_wait_start' = 0
               /\ waiting_for_signal' = FALSE /\ waiting_signal_id' = 0
               /\ replay_inputs' = <<>> /\ replay_signals' = <<>>
               /\ replay_pins' = <<>> /\ replay_tracks' = <<>> /\ replay_refs' = {}
               /\ replay_input_cursor' = 0 /\ replay_signal_cursor' = 0
               /\ replay_prev_input' = GMT_InputState_Clear
               /\ replay_current_input' = GMT_InputState_Clear
               /\ record_file' = FALSE /\ record_prev_input' = GMT_InputState_Clear
               /\ pin_counter' = GMT_KeyCounter_Reset
               /\ track_counter' = GMT_KeyCounter_Reset
               /\ assertion_fire_count' = 0 /\ failed_assertions' = <<>>
               /\ total_assertion_count' = 0 /\ seen_assertion_sites' = {}
               /\ test_failed' = FALSE
               /\ UNCHANGED <<file, header, injected>>
          [] path = "ok" ->
               /\ initialized' = TRUE /\ mode' = cfg.mode /\ setup' = cfg
               /\ frame_index' = 0
               /\ record_start_time' = now /\ replay_time_offset' = 0
               /\ signal_wait_start' = 0
               /\ waiting_for_signal' = FALSE /\ waiting_signal_id' = 0
               /\ replay_inputs' = IF rep THEN DecodedInputs(file) ELSE <<>>
               /\ replay_signals' = IF rep THEN DecodedSignals(file) ELSE <<>>
               /\ replay_pins' = IF rep THEN DecodedData(file, "PIN") ELSE <<>>
               /\ replay_tracks' = IF rep THEN DecodedData(file, "TRACK") ELSE <<>>
               /\ replay_refs' = IF rep THEN GMT_Record_LoadArrays(file, TRUE, AllAllocs).refs
                                 ELSE {}
               /\ replay_input_cursor' = 0 /\ replay_signal_cursor' = 0
               /\ replay_prev_input' = GMT_InputState_Clear
               /\ replay_current_input' = GMT_InputState_Clear
               /\ record_file' = rec /\ record_prev_input' = GMT_InputState_Clear
               /\ file' = IF rec THEN <<>> ELSE file
               /\ header' = IF rec THEN GMT_Record_OpenForWrite ELSE header
               /\ pin_counter' = GMT_KeyCounter_Reset
               /\ track_counter' = GMT_KeyCounter_Reset
               /\ assertion_fire_count' = 0 /\ failed_assertions' = <<>>
               /\ total_assertion_count' = 0 /\ seen_assertion_sites' = {}
               /\ test_failed' = FALSE
               /\ injected' = <<>>

\* The steps of GMT_Quit_ on an initialized session of mode m: the trace is
\* closed or the decoded arrays are freed, then g_gmt is zeroed. No lock is
\* taken and the injector thread is not stopped.
QuitSteps(m) ==
  IF m = "RECORD" THEN <<"close_write", "platform_quit", "memset">>
  ELSE IF m = "REPLAY" THEN <<"free_replay", "platform_quit", "memset">>
  ELSE <<"memset">>

\* The steps of GMT_Reset_ on a running session of mode m: the whole body
\* runs under the lock; the injector thread is not stopped.
ResetSteps(m) ==
  IF m = "RECORD"
  THEN <<"lock", "close_write", "open_for_write", "reset_statistics", "unlock">>
  ELSE <<"lock", "free_replay", "load_replay", "reset_statistics", "unlock">>

\* The steps of one update: the whole body runs under the lock, the
\* injections of GMT_Record_InjectInput included.
UpdateSteps(n) == <<"lock">> \o [i \in 1..n |-> "inject_input"] \o <<"unlock">>

\* GMT_Update_: one tick. `captured` is what GMT_Platform_CaptureInput
\* returns when the recorder asks for it. frame_index is counted up to
\* MaxFrameIndex; larger values are not told apart.
GMT_Update_(captured) ==
  LET on == Active
      rec == on /\ mode = "RECORD"
      rep == on /\ mode = "REPLAY"
      w == GMT_Record_WriteInput(captured)
      c == GMT__CollectPendingInjections
  IN /\ ~aborted
     /\ pin_counter' = IF on THEN GMT_KeyCounter_Reset ELSE pin_counter
     /\ track_counter' = IF on THEN GMT_KeyCounter_Reset ELSE track_counter
     /\ file' = IF rec THEN w.file ELSE file
     /\ record_prev_input' = IF rec THEN w.prev ELSE record_prev_input
     /\ replay_input_cursor' = IF rep THEN c.cursor ELSE replay_input_cursor
     /\ replay_prev_input' = IF rep THEN c.prev ELSE replay_prev_input
     /\ replay_current_input' = IF rep THEN c.cur ELSE replay_current_input
     /\ waiting_for_signal' = IF rep THEN c.waiting ELSE waiting_for_signal
     /\ waiting_signal_id' = IF rep THEN c.wid ELSE waiting_signal_id
     /\ signal_wait_start' = IF rep THEN c.wstart ELSE signal_wait_start
     /\ injected' = IF rep THEN injected \o c.out ELSE injected
     /\ frame_index' = IF on /\ frame_index < MaxFrameIndex THEN frame_index + 1
                       ELSE frame_index
     /\ held_calls' = IF rep THEN held_calls \cup CallsUnderLock(UpdateSteps(Len(c.out)))
                      ELSE held_calls
     /\ UNCHANGED <<sessionVars, clockVars, record_start_time, replay_time_offset,
                    arrayVars, replay_signal_cursor, record_file, header,
                    assertVars, signal_calls, last>>

\* The steps of one iteration of the injector thread: collect under the
\* lock, inject after the unlock.
ThreadSteps(n) == <<"lock", "unlock">> \o [i \in 1..n |-> "inject_input"]

\* GMT__ReplayThreadFunc, one iteration of its loop.
GMT__ReplayThreadFunc ==
  LET c == GMT__CollectPendingInjections
  IN /\ ~aborted
     /\ Active /\ mode = "REPLAY"
     /\ replay_input_cursor' = c.cursor
     /\ replay_prev_input' = c.prev
     /\ replay_current_input' = c.cur
     /\ waiting_for_signal' = c.waiting
     /\ waiting_signal_id' = c.wid
     /\ signal_wait_start' = c.wstart
     /\ injected' = injected \o c.out
     /\ held_calls' = held_calls \cup CallsUnderLock(ThreadSteps(Len(c.out)))
     /\ UNCHANGED <<sessionVars, frame_index, clockVars, record_start_time,
                    replay_time_offset, arrayVars, replay_signal_cursor, recordVars,
                    counterVars, assertVars, signal_calls, last>>

SignalSteps_CallbackHeld(cb) ==
  IF cb THEN <<"lock", "signal_callback", "unlock">> ELSE <<"lock", "unlock">>

SignalSteps(cb) ==
  IF cb THEN <<"lock", "unlock", "signal_callback">> ELSE <<"lock", "unlock">>

SignalMatches_AnyId(id) == replay_signal_cursor < Len(replay_signals)

\* The signal is the next expected one of the trace.
SignalMatches(id) ==
  /\ replay_signal_cursor < Len(replay_signals)
  /\ replay_signals[replay_signal_cursor + 1].signal_id = id

\* The late case: the offset grows by the time spent gated.
LateOffset == replay_time_offset + (now - signal_wait_start)

\* An early case that adds nothing to the offset.
EarlyOffset_Keep(st) == replay_time_offset

\* The early case: the replay clock is set to the signal's timestamp.
EarlyOffset(st) == replay_time_offset + (ReplayTime(now) - st)

\* GMT_SyncSignal_
GMT_SyncSignal_(id) ==
  LET on == Active
      rec == on /\ mode = "RECORD"
      rep == on /\ mode = "REPLAY"
      matched == rep /\ SignalMatches(id)
      st == replay_signals[replay_signal_cursor + 1].timestamp
      late == waiting_for_signal /\ waiting_signal_id = id
      cb == on /\ setup.signal_callback
  IN /\ ~aborted
     /\ file' = IF rec THEN GMT_Record_WriteSignal(id) ELSE file
     /\ replay_time_offset' =
          IF ~matched THEN replay_time_offset
          ELSE IF late THEN LateOffset
          ELSE EarlyOffset(st)
     /\ replay_signal_cursor' = IF matched THEN replay_signal_cursor + 1
                                ELSE replay_signal_cursor
     /\ signal_calls' = IF cb THEN signal_calls + 1 ELSE signal_calls
     /\ held_calls' = IF on THEN held_calls \cup CallsUnderLock(SignalSteps(cb))
                      ELSE held_calls
     /\ UNCHANGED <<sessionVars, frame_index, clockVars, record_start_time,
                    signal_wait_start, gateVars, arrayVars, replay_input_cursor,
                    replayInputVars, record_file, header, record_prev_input,
                    counterVars, assertVars, injected, last>>

\* GMT_Reset_. The reopen of the record file succeeds; the reload of the
\* replay file goes as `valid` and `allocs` say (the code looks at the
\* result of neither).
GMT_Reset_(valid, allocs) ==
  LET on == Active
      rec == on /\ mode = "RECORD"
      rep == on /\ mode = "REPLAY"
      freed == GMT_Record_FreeReplay
      loaded == GMT_Record_LoadArrays(file, valid, allocs)
  IN /\ ~aborted
     /\ file' = IF rec THEN <<>> ELSE file
     /\ header' = IF rec THEN GMT_Record_OpenForWrite ELSE header
     /\ record_file' = IF rec THEN TRUE ELSE record_file
     /\ replay_inputs' = IF rep THEN loaded.inputs ELSE replay_inputs
     /\ replay_signals' = IF rep THEN loaded.signals ELSE replay_signals
     /\ replay_pins' = IF rep THEN loaded.pins ELSE replay_pins
     /\ replay_tracks' = IF rep THEN loaded.tracks ELSE replay_tracks
     /\ replay_refs' = IF rep THEN freed.refs \cup loaded.refs ELSE replay_refs
     /\ replay_input_cursor' = IF rep THEN freed.input_cursor ELSE replay_input_cursor
     /\ replay_signal_cursor' = IF rep THEN freed.signal_cursor ELSE replay_signal_cursor
     /\ frame_index' = IF on THEN 0 ELSE frame_index
     /\ test_failed' = IF on THEN FALSE ELSE test_failed
     /\ failed_assertions' = IF on THEN <<>> ELSE failed_assertions
     /\ assertion_fire_count' = IF on THEN 0 ELSE assertion_fire_count
     /\ waiting_for_signal' = IF on THEN FALSE ELSE waiting_for_signal
     /\ waiting_signal_id' = IF on THEN 0 ELSE waiting_signal_id
     /\ replay_prev_input' = IF on THEN GMT_InputState_Clear ELSE replay_prev_input
     /\ pin_counter' = IF on THEN GMT_KeyCounter_Reset ELSE pin_counter
     /\ track_counter' = IF on THEN GMT_KeyCounter_Reset ELSE track_counter
     /\ record_start_time' = IF on THEN now ELSE record_start_time
     /\ replay_time_offset' = IF on THEN 0 ELSE replay_time_offset
     /\ signal_wait_start' = IF on THEN 0 ELSE signal_wait_start
     /\ injected' = IF on THEN <<>> ELSE injected
     /\ UNCHANGED <<sessionVars, clockVars, replay_current_input, record_prev_input,
                    total_assertion_count, seen_assertion_sites, fail_calls,
                    trigger_calls, callVars, aborted, last>>

\* The platform clock moves on.
Tick ==
  /\ ~aborted
  /\ now < MaxTime
  /\ now' = now + 1
  /\ UNCHANGED <<stateVars, file, header, fail_calls, trigger_calls, callVars,
                 aborted, injected, logVars, last>>

\* -------------------------------------------------------------- assertions

\* The assertion bookkeeping and what the callbacks observed, as one value.
AssertState ==
  [fire |-> assertion_fire_count, failed |-> failed_assertions,
   total |-> total_assertion_count, seen |-> seen_assertion_sites,
   test_failed |-> test_failed, fail_calls |-> fail_calls,
   trigger_calls |-> trigger_calls, held |-> held_calls, aborted |-> aborted]

\* The variables take the assertion state a.
SetAssertState(a) ==
  /\ assertion_fire_count' = a.fire
  /\ failed_assertions' = a.failed
  /\ total_assertion_count' = a.total
  /\ seen_assertion_sites' = a.seen
  /\ test_failed' = a.test_failed
  /\ fail_calls' = a.fail_calls
  /\ trigger_calls' = a.trigger_calls
  /\ held_calls' = a.held
  /\ aborted' = a.aborted

\* unique_assertion_count: the size of the call-site set.
unique_assertion_count == Cardinality(seen_assertion_sites)

FailSteps(cb) ==
  <<"lock", "unlock", IF cb THEN "fail_callback" ELSE "default_fail">>

\* A fail that does nothing once the run is marked failed.
Fail_Once(a) ==
  IF ~Active \/ a.test_failed THEN a
  ELSE [a EXCEPT !.test_failed = TRUE,
                 !.fail_calls = IF setup.fail_callback THEN @ + 1 ELSE @,
                 !.held = @ \cup CallsUnderLock(FailSteps(setup.fail_callback)),
                 !.aborted = ~setup.fail_callback]

\* GMT_Fail_: the run is marked failed under the lock, then the fail
\* callback of the setup runs, or the default action, which aborts the
\* process.
GMT_Fail_(a) ==
  IF ~Active THEN a
  ELSE [a EXCEPT !.test_failed = TRUE,
                 !.fail_calls = IF setup.fail_callback THEN @ + 1 ELSE @,
                 !.held = @ \cup CallsUnderLock(FailSteps(setup.fail_callback)),
                 !.aborted = ~setup.fail_callback]

\* A threshold test that needs one failure more.
TriggerReached_Strict(fire_count, trigger_count) ==
  fire_count > (IF trigger_count <= 1 THEN 1 ELSE trigger_count)

\* The threshold test of GMT_Assert_.
TriggerReached(fire_count, trigger_count) ==
  fire_count >= (IF trigger_count <= 1 THEN 1 ELSE trigger_count)

AssertSteps(cb) ==
  IF cb THEN <<"lock", "unlock", "assertion_trigger_callback">>
  ELSE <<"lock", "unlock">>

\* A list that takes every failure.
StoreFailed_Always(failed, msg) == Append(failed, msg)

\* The failure is stored while the list is below GMT_MAX_FAILED_ASSERTIONS.
StoreFailed(failed, msg) ==
  IF Len(failed) < GMT_MAX_FAILED_ASSERTIONS THEN Append(failed, msg) ELSE failed

\* GMT_Assert_ on the assertion state a; loc is the call site.
GMT_Assert_(a, condition, msg, loc) ==
  LET counted == [a EXCEPT !.total = @ + 1, !.seen = @ \cup {loc}]
      cb == setup.assertion_trigger_callback
      fired == [counted EXCEPT
                  !.fire = @ + 1,
                  !.failed = StoreFailed(@, msg),
                  !.trigger_calls = IF cb THEN @ + 1 ELSE @,
                  !.held = @ \cup CallsUnderLock(AssertSteps(cb))]
  IN IF ~Active THEN a
     ELSE IF condition THEN counted
     ELSE IF TriggerReached(fired.fire, setup.fail_assertion_trigger_count)
          THEN GMT_Fail_(fired)
     ELSE fired

\* GMT_ClearFailedAssertions_
GMT_ClearFailedAssertions_ ==
  LET on == mode # "DISABLED"
  IN /\ ~aborted
     /\ failed_assertions' = IF on THEN <<>> ELSE failed_assertions
     /\ assertion_fire_count' = IF on THEN 0 ELSE assertion_fire_count
     /\ total_assertion_count' = IF on THEN 0 ELSE total_assertion_count
     /\ seen_assertion_sites' = IF on THEN {} ELSE seen_assertion_sites
     /\ UNCHANGED <<sessionVars, frame_index, clockVars, timingVars, gateVars,
                    arrayVars, cursorVars, replayInputVars, recordVars, counterVars,
                    test_failed, fail_calls, trigger_calls, callVars, aborted,
                    injected, last>>

\* --------------------------------------------------------------- pin, track

\* A null data pointer.
NullPtr == 0 - 1

\* Checks that let an oversized payload through to the counter.
Rejected_NoCap(size, data) == data = NullPtr \/ size = 0

\* The checks both helpers make before they take the lock.
Rejected(size, data) ==
  data = NullPtr \/ size = 0 \/ size > GMT_MAX_DATA_RECORD_PAYLOAD

\* A restore that does not compare the sizes.
PinRestore_AnySize(key, index, size, data) ==
  LET found == GMT_Record_FindDecoded(replay_pins, key, index)
  IN IF found = 0 THEN data ELSE replay_pins[found].data

\* Replay branch of GMT_Pin_: the live value after the call.
PinRestore(key, index, size, data) ==
  LET found == GMT_Record_FindDecoded(replay_pins, key, index)
  IN IF found = 0 THEN data
     ELSE IF replay_pins[found].size # size THEN data
     ELSE replay_pins[found].data

\* GMT_Pin_
GMT_Pin_(key, size, data) ==
  LET on == Active
      taken == on /\ ~Rejected(size, data)
      n == GMT_KeyCounter_Next(pin_counter, key)
      rec == taken /\ mode = "RECORD"
      rep == taken /\ mode = "REPLAY"
  IN /\ ~aborted
     /\ pin_counter' = IF taken THEN n.counter ELSE pin_counter
     /\ file' = IF rec THEN GMT_Record_WriteDataRecord("PIN", key, n.index, size, data)
                ELSE file
     /\ last' = [op |-> "Pin", key |-> key, size |-> size, in |-> data,
                 taken |-> taken, index |-> n.index,
                 out |-> IF rep THEN PinRestore(key, n.index, size, data) ELSE data,
                 cmp |-> "EXACT", fired |-> 0]
     /\ UNCHANGED <<sessionVars, frame_index, clockVars, timingVars, gateVars,
                    arrayVars, cursorVars, replayInputVars, record_file, header,
                    record_prev_input, track_counter, assertVars, callVars,
                    injected>>

Abs(x) == IF x < 0 THEN 0 - x ELSE x

\* The comparison of GMT_Track_ by kind: epsilon for the float kinds, memcmp
\* for the rest.
TrackMatch(cmp, recorded, current) ==
  IF cmp \in {"FLOAT", "DOUBLE"} THEN Abs(recorded - current) < UnitsPerEpsilon
  ELSE recorded = current

\* A check that compares whatever the recorded size is.
TrackCheck_AnySize(key, index, size, cmp, data) ==
  LET found == GMT_Record_FindDecoded(replay_tracks, key, index)
  IN IF found = 0 THEN "skip"
     ELSE IF TrackMatch(cmp, replay_tracks[found].data, data) THEN "match"
     ELSE "mismatch"

\* Replay branch of GMT_Track_: what the lookup and the comparison decide.
TrackCheck(key, index, size, cmp, data) ==
  LET found == GMT_Record_FindDecoded(replay_tracks, key, index)
  IN IF found = 0 THEN "skip"
     ELSE IF replay_tracks[found].size # size THEN "skip"
     ELSE IF TrackMatch(cmp, replay_tracks[found].data, data) THEN "match"
     ELSE "mismatch"

\* GMT_Track_
GMT_Track_(key, size, cmp, data) ==
  LET on == Active
      taken == on /\ ~Rejected(size, data)
      n == GMT_KeyCounter_Next(track_counter, key)
      rec == taken /\ mode = "RECORD"
      rep == taken /\ mode = "REPLAY"
      verdict == IF rep THEN TrackCheck(key, n.index, size, cmp, data) ELSE "none"
      a == IF verdict = "mismatch"
           THEN GMT_Assert_(AssertState, FALSE, "GMT_Track: value mismatch", key)
           ELSE AssertState
  IN /\ ~aborted
     /\ track_counter' = IF taken THEN n.counter ELSE track_counter
     /\ file' = IF rec THEN GMT_Record_WriteDataRecord("TRACK", key, n.index, size, data)
                ELSE file
     /\ SetAssertState(a)
     /\ last' = [op |-> "Track", key |-> key, size |-> size, in |-> data,
                 taken |-> taken, index |-> n.index, out |-> data,
                 cmp |-> cmp, fired |-> a.fire - assertion_fire_count]
     /\ UNCHANGED <<sessionVars, frame_index, clockVars, timingVars, gateVars,
                    arrayVars, cursorVars, replayInputVars, record_file, header,
                    record_prev_input, pin_counter, signal_calls, injected>>

\* GMT_Quit_: the recording is closed with the END tag (the replay arrays
\* are freed) and g_gmt is zeroed.
GMT_Quit_ ==
  /\ ~aborted
  /\ IF initialized
     THEN /\ file' = IF mode = "RECORD" THEN GMT_Record_CloseWrite ELSE file
          /\ Memset0
     ELSE UNCHANGED <<stateVars, file>>
  /\ UNCHANGED <<clockVars, header, injected, fail_calls, trigger_calls, callVars,
                 aborted, last>>

\* ------------------------------------------------- replay of a given trace

Nondecreasing(s) == \A i \in 1..(Len(s) - 1) : s[i].timestamp <= s[i + 1].timestamp

\* INPUT records as the recorder writes them: timestamps in clock order and
\* every snapshot different from the one written before it.
InputRuns ==
  UNION {{s \in [1..n -> [tag : {"INPUT"}, timestamp : 0..MaxTs, input : Snapshots]] :
            /\ Nondecreasing(s)
            /\ \A i \in 1..n : s[i].input #
                 (IF i = 1 THEN GMT_InputState_Clear ELSE s[i - 1].input)}
         : n \in 0..MaxInputs}

SignalRuns ==
  UNION {{s \in [1..n -> [tag : {"SIGNAL"}, timestamp : 0..MaxTs, signal_id : SignalIds]] :
            Nondecreasing(s)}
         : n \in 0..MaxSignals}

\* The two streams in one file, by timestamp.
RECURSIVE Merge(_, _)
Merge(a, b) ==
  IF a = <<>> THEN b
  ELSE IF b = <<>> THEN a
  ELSE IF Head(b).timestamp <= Head(a).timestamp
       THEN <<Head(b)>> \o Merge(a, Tail(b))
       ELSE <<Head(a)>> \o Merge(Tail(a), b)

TraceFiles == {Merge(a, b) \o <<[tag |-> "END"]>> : a \in InputRuns, b \in SignalRuns}

ReplaySetup == [mode |-> "REPLAY", fail_assertion_trigger_count |-> 1,
                fail_callback |-> TRUE, signal_callback |-> FALSE,
                assertion_trigger_callback |-> FALSE]

\* A trace on disk, written by the recorder, that the loader accepts: the
\* replay specifications start where GMT_Record_LoadReplay has succeeded.
Init == ZeroState /\ file \in TraceFiles /\ header = GMT_Record_OpenForWrite

StartReplay == ~initialized /\ GMT_Init_(ReplaySetup, TRUE) /\ UNCHANGED logVars

Update == initialized /\ GMT_Update_(GMT_InputState_Clear) /\ UNCHANGED logVars

SyncSignal ==
  initialized /\ (\E id \in SignalIds : GMT_SyncSignal_(id)) /\ UNCHANGED logVars

Reset == initialized /\ GMT_Reset_(TRUE, AllAllocs) /\ UNCHANGED logVars

Next == Tick \/ StartReplay \/ Update \/ SyncSignal \/ Reset

Spec == Init /\ [][Next]_vars

\* The replay with the scheduling the host gives it: the clock advances,
\* update is called every tick, and the application reaches every recorded
\* signal in recorded order.
EmitExpected ==
  /\ initialized
  /\ replay_signal_cursor < Len(replay_signals)
  /\ GMT_SyncSignal_(replay_signals[replay_signal_cursor + 1].signal_id)
  /\ UNCHANGED logVars

LiveNext == Tick \/ StartReplay \/ Update \/ SyncSignal

\* The traces of at most MaxLiveRecords records.
LiveInit == Init /\ Len(file) <= MaxLiveRecords + 1

LiveSpec ==
  /\ LiveInit /\ [][LiveNext]_vars
  /\ WF_vars(Tick) /\ WF_vars(StartReplay) /\ WF_vars(Update) /\ WF_vars(EmitExpected)

\* -------------------------------------------------------- a recording run

RecordSetup == [mode |-> "RECORD", fail_assertion_trigger_count |-> 1,
                fail_callback |-> TRUE, signal_callback |-> FALSE,
                assertion_trigger_callback |-> FALSE]

Updates(log) == Len(SelectSeq(log, LAMBDA e : e.op = "Update"))
Resets(log) == Len(SelectSeq(log, LAMBDA e : e.op = "Reset"))
DataCalls(log) == Len(SelectSeq(log, LAMBDA e : e.op \in {"Pin", "Track"}))

\* No trace on disk yet.
InitRecord == ZeroState /\ file = <<>> /\ header = NoHeader

StartRecord ==
  /\ ~initialized /\ file = <<>>
  /\ GMT_Init_(RecordSetup, TRUE)
  /\ run_log' = <<[op |-> "Init", baseline |-> GMT_InputState_Clear]>>
  /\ UNCHANGED rec_log

\* One tick of the recording: the platform reports any snapshot.
RecordUpdate ==
  /\ mode = "RECORD" /\ Updates(run_log) < MaxInputs
  /\ \E captured \in Snapshots :
       /\ GMT_Update_(captured)
       /\ run_log' = Append(run_log, [op |-> "Update", captured |-> captured])
  /\ UNCHANGED rec_log

\* A reset starts a new trace; the log of the run starts again with it.
RecordReset ==
  /\ mode = "RECORD" /\ Resets(run_log) = 0
  /\ GMT_Reset_(TRUE, AllAllocs)
  /\ run_log' = <<[op |-> "Reset", baseline |-> record_prev_input]>>
  /\ UNCHANGED rec_log

RecordQuit ==
  /\ mode = "RECORD"
  /\ GMT_Quit_
  /\ UNCHANGED logVars

NextRecord == Tick \/ StartRecord \/ RecordUpdate \/ RecordReset \/ RecordQuit

SpecRecord == InitRecord /\ [][NextRecord]_vars

\* ------------------------------------------ a recording and its replay

\* What the application passes to Pin: a 4-byte and an 8-byte value, and a
\* blob above the payload cap.
PinPayloads == {<<4, 0>>, <<4, 1>>, <<8, 0>>, <<257, 0>>}

\* What the application passes to Track: kind, size, value.
TrackPayloads == {<<"INT", 4, 0>>, <<"INT", 4, 1>>, <<"DOUBLE", 8, 0>>, <<"DOUBLE", 8, 1>>}

ReplaySetups ==
  {[mode |-> "REPLAY", fail_assertion_trigger_count |-> 2, fail_callback |-> TRUE,
    signal_callback |-> FALSE, assertion_trigger_callback |-> TRUE],
   [mode |-> "REPLAY", fail_assertion_trigger_count |-> 0, fail_callback |-> FALSE,
    signal_callback |-> FALSE, assertion_trigger_callback |-> FALSE]}

StartRecording ==
  /\ ~initialized /\ file = <<>>
  /\ GMT_Init_(RecordSetup, TRUE)
  /\ UNCHANGED logVars

DataUpdate ==
  /\ initialized /\ Updates(run_log) < MaxFrames
  /\ GMT_Update_(GMT_InputState_Clear)
  /\ run_log' = Append(run_log, [op |-> "Update"])
  /\ UNCHANGED rec_log

Pin ==
  /\ initialized /\ DataCalls(run_log) < MaxCalls
  /\ \E key \in Keys, p \in PinPayloads : GMT_Pin_(key, p[1], p[2])
  /\ run_log' = Append(run_log, last')
  /\ UNCHANGED rec_log

Track ==
  /\ initialized /\ DataCalls(run_log) < MaxCalls
  /\ \E key \in Keys, p \in TrackPayloads : GMT_Track_(key, p[2], p[1], p[3])
  /\ run_log' = Append(run_log, last')
  /\ UNCHANGED rec_log

FinishRecording ==
  /\ mode = "RECORD"
  /\ GMT_Quit_
  /\ rec_log' = run_log
  /\ run_log' = <<>>

ReplayRecording ==
  /\ ~initialized /\ file # <<>>
  /\ \E cfg \in ReplaySetups : GMT_Init_(cfg, TRUE)
  /\ UNCHANGED logVars

NextPin == StartRecording \/ DataUpdate \/ Pin \/ FinishRecording \/ ReplayRecording

SpecPin == InitRecord /\ [][NextPin]_vars

NextTrack == StartRecording \/ DataUpdate \/ Track \/ FinishRecording \/ ReplayRecording

SpecTrack == InitRecord /\ [][NextTrack]_vars

\* --------------------------------------------- calls that are turned away

\* What the application passes to either helper: 4 and 8 bytes, and what the
\* helpers refuse: a null pointer, a size of zero, a payload above
\* GMT_MAX_DATA_RECORD_PAYLOAD.
CallPayloads ==
  {<<4, 1>>, <<8, 1>>, <<4, NullPtr>>, <<0, 0>>, <<GMT_MAX_DATA_RECORD_PAYLOAD + 1, 0>>}

\* A Pin or a Track call among the calls of a tick.
AnyDataCall ==
  /\ initialized /\ DataCalls(run_log) < MaxCalls
  /\ \E key \in Keys, p \in CallPayloads :
       \/ GMT_Pin_(key, p[1], p[2])
       \/ GMT_Track_(key, p[1], "INT", p[2])
  /\ run_log' = Append(run_log, last')
  /\ UNCHANGED rec_log

\* The recording ends; only the trace on disk goes on to the replay.
FinishData ==
  /\ mode = "RECORD"
  /\ GMT_Quit_
  /\ run_log' = <<>>
  /\ rec_log' = <<>>

NextData ==
  StartRecording \/ DataUpdate \/ AnyDataCall \/ FinishData \/ ReplayRecording

SpecData == InitRecord /\ [][NextData]_vars

\* ------------------------------------------------------ a session, any calls

\* GMT_Fail_ and GMT_Assert_ called by the application.
FailCall ==
  /\ ~aborted
  /\ SetAssertState(GMT_Fail_(AssertState))
  /\ UNCHANGED <<sessionVars, frame_index, clockVars, timingVars, gateVars,
                 arrayVars, cursorVars, replayInputVars, recordVars, counterVars,
                 signal_calls, injected, last>>

AssertCall(condition, loc) ==
  /\ ~aborted
  /\ SetAssertState(GMT_Assert_(AssertState, condition, "assertion", loc))
  /\ UNCHANGED <<sessionVars, frame_index, clockVars, timingVars, gateVars,
                 arrayVars, cursorVars, replayInputVars, recordVars, counterVars,
                 signal_calls, injected, last>>

\* The configurations the application passes to init: every mode, a
\* threshold below 1 and one above, with the three callbacks set; and a
\* replay without callbacks (the default fail action).
SessionSetups ==
  {[mode |-> m, fail_assertion_trigger_count |-> t, fail_callback |-> TRUE,
    signal_callback |-> TRUE, assertion_trigger_callback |-> TRUE] :
     m \in {"DISABLED", "RECORD", "REPLAY"}, t \in {0, 2}}
  \cup {[mode |-> "REPLAY", fail_assertion_trigger_count |-> 2,
         fail_callback |-> FALSE, signal_callback |-> FALSE,
         assertion_trigger_callback |-> FALSE]}

\* Call sites of assertions.
Sites == {1, 2}

\* Traces of one input at time 0 and one signal.
SessionTraces ==
  {f \in TraceFiles :
     /\ Len(DecodedInputs(f)) = 1 /\ Len(DecodedSignals(f)) = 1
     /\ DecodedInputs(f)[1].timestamp = 0 /\ DecodedSignals(f)[1].signal_id = 1}

InitSession == ZeroState /\ file \in SessionTraces /\ header = GMT_Record_OpenForWrite

\* The log of a session holds its last call: the operation, its ordinal,
\* its arguments, and the assertion failures since init, reset or clear.
OpCount == IF run_log = <<>> THEN 0 ELSE run_log[1].n
Failures == IF run_log = <<>> THEN 0 ELSE run_log[1].failures

Logged(name, args, failures) ==
  /\ OpCount < MaxOps
  /\ run_log' = <<[op |-> name, n |-> OpCount + 1, args |-> args,
                   failures |-> failures]>>
  /\ UNCHANGED rec_log

NoArgs == [none |-> TRUE]

SessionInit ==
  \E cfg \in SessionSetups \cup {NullSetup}, io_ok \in BOOLEAN :
    /\ GMT_Init_(cfg, io_ok)
    /\ Logged("Init", [cfg |-> cfg, io_ok |-> io_ok],
              IF last'.ret THEN 0 ELSE Failures)

SessionQuit == GMT_Quit_ /\ Logged("Quit", NoArgs, 0)

SessionUpdate ==
  \E captured \in Snapshots :
    GMT_Update_(captured) /\ Logged("Update", [captured |-> captured], Failures)

SessionReset == GMT_Reset_(TRUE, AllAllocs) /\ Logged("Reset", NoArgs, 0)

SessionClear == GMT_ClearFailedAssertions_ /\ Logged("Clear", NoArgs, 0)

SessionFail == FailCall /\ Logged("Fail", NoArgs, Failures)

SessionAssert ==
  \E condition \in BOOLEAN, loc \in Sites :
    /\ AssertCall(condition, loc)
    /\ Logged("Assert", [condition |-> condition, loc |-> loc],
              IF Active /\ ~condition THEN Failures + 1 ELSE Failures)

SessionSyncSignal ==
  \E id \in SignalIds :
    GMT_SyncSignal_(id) /\ Logged("SyncSignal", [id |-> id], Failures)

SessionPin == GMT_Pin_(1, 4, 1) /\ Logged("Pin", NoArgs, Failures)

SessionTrack == GMT_Track_(1, 4, "INT", 1) /\ Logged("Track", NoArgs, Failures)

\* The injector thread, where the platform layer has started it.
SessionThread == GMT__ReplayThreadFunc /\ Logged("Thread", NoArgs, Failures)

\* The clock of a session is followed up to MaxTs.
SessionTick == now < MaxTs /\ Tick

NextSession ==
  \/ SessionTick \/ SessionInit \/ SessionQuit \/ SessionUpdate \/ SessionReset
  \/ SessionClear \/ SessionFail \/ SessionAssert \/ SessionSyncSignal
  \/ SessionPin \/ SessionTrack \/ SessionThread

SpecSession == InitSession /\ [][NextSession]_vars

\* ------------------------------------------- a recording, then its load

\* The replay is started on the file the recording left, the loader
\* validating the header the recorder wrote.
LoadRecorded ==
  /\ ~initialized /\ header # NoHeader
  /\ GMT_Init_(ReplaySetup, GMT_Record_LoadReplay(header, TRUE))
  /\ UNCHANGED logVars

NextHeader == Tick \/ StartRecord \/ RecordUpdate \/ RecordQuit \/ LoadRecorded

SpecHeader == InitRecord /\ [][NextHeader]_vars

\* --------------------------------------------- the trace of a recording

\* The calls of a recording since init or the last reset, each with what it
\* is to leave in the trace: tag and content, or nothing.
Recording == initialized /\ mode = "RECORD"

TraceLog(name, wrote) ==
  /\ Len(run_log) < MaxOps
  /\ run_log' = Append(run_log, [op |-> name, wrote |-> wrote])
  /\ UNCHANGED rec_log

TraceInit ==
  /\ ~initialized
  /\ GMT_Init_(RecordSetup, TRUE)
  /\ run_log' = <<>> /\ UNCHANGED rec_log

\* An update writes its snapshot or, by the delta rule, nothing.
TraceUpdate ==
  \E captured \in Snapshots :
    /\ GMT_Update_(captured)
    /\ TraceLog("Update", IF Recording /\ Len(file') > Len(file)
                          THEN <<<<"INPUT", captured>>>> ELSE <<>>)

TraceSyncSignal ==
  \E id \in SignalIds :
    /\ GMT_SyncSignal_(id)
    /\ TraceLog("SyncSignal", IF Recording THEN <<<<"SIGNAL", id>>>> ELSE <<>>)

TracePin ==
  \E key \in Keys, p \in {<<4, 1>>, <<257, 0>>} :
    /\ GMT_Pin_(key, p[1], p[2])
    /\ TraceLog("Pin", IF Recording /\ p[1] <= GMT_MAX_DATA_RECORD_PAYLOAD
                       THEN <<<<"PIN", <<key, p[1], p[2]>>>>>> ELSE <<>>)

TraceTrack ==
  \E key \in Keys :
    /\ GMT_Track_(key, 4, "INT", 1)
    /\ TraceLog("Track", IF Recording THEN <<<<"TRACK", <<key, 4, 1>>>>>> ELSE <<>>)

\* A reset starts a new trace, and the log with it.
TraceReset ==
  /\ GMT_Reset_(TRUE, AllAllocs)
  /\ IF Recording THEN run_log' = <<>> /\ UNCHANGED rec_log
     ELSE TraceLog("Reset", <<>>)

TraceQuit == initialized /\ GMT_Quit_ /\ TraceLog("Quit", <<>>)

NextTrace ==
  \/ SessionTick \/ TraceInit \/ TraceUpdate \/ TraceSyncSignal \/ TracePin
  \/ TraceTrack \/ TraceReset \/ TraceQuit

SpecTrace == InitRecord /\ [][NextTrace]_vars

\* ---------------------------------------------------- the replay clock

\* A replay of any trace; the log keeps the replay time at which the
\* injector set the gate, and the signal it set it for.
ClockUpdate ==
  /\ initialized /\ GMT_Update_(GMT_InputState_Clear)
  /\ run_log' = IF ~waiting_for_signal /\ waiting_for_signal'
                THEN <<[gate_time |-> (now - record_start_time) - replay_time_offset,
                       signal |-> replay_signal_cursor + 1]>>
                ELSE run_log
  /\ UNCHANGED rec_log

NextClock == Tick \/ StartReplay \/ ClockUpdate \/ SyncSignal \/ Reset

SpecClock == Init /\ [][NextClock]_vars

\* ------------------------------------------------- the loads of a replay

\* A trace whose END tag is lost with the end of its last record, and one
\* with a record of no known tag before the END tag.
Damaged(f) ==
  LET front == SubSeq(f, 1, Len(f) - 1)
  IN {front \o <<[tag |-> "CUT"]>>,
      front \o <<[tag |-> "UNKNOWN"], [tag |-> "END"]>>}

\* A trace with a PIN and a TRACK record and with a record behind its END
\* tag; a trace with something that is no record behind its END tag; and a
\* trace with a PIN record whose header declares a size above
\* GMT_MAX_DATA_RECORD_PAYLOAD, the payload being there in full.
Crafted(f) ==
  LET front == SubSeq(f, 1, Len(f) - 1)
      pin == [tag |-> "PIN", key |-> 1, index |-> 0, size |-> 4, data |-> 1]
      track == [tag |-> "TRACK", key |-> 1, index |-> 0, size |-> 4, data |-> 0]
  IN {front \o <<pin, track, [tag |-> "END"],
                 [tag |-> "INPUT", timestamp |-> MaxTs, input |-> 0]>>,
      f \o <<[tag |-> "UNKNOWN"]>>,
      front \o <<[pin EXCEPT !.size = GMT_MAX_DATA_RECORD_PAYLOAD + 1],
                 [tag |-> "END"]>>}

LoadFiles ==
  SessionTraces \cup UNION {Damaged(f) \cup Crafted(f) : f \in SessionTraces}

InitLoad == ZeroState /\ file \in LoadFiles /\ header = GMT_Record_OpenForWrite

\* Init and reset of a replay, the load going as the file, the header
\* validation and the allocator make it go.
LoadInit ==
  \E valid \in BOOLEAN, allocs \in 0..AllAllocs :
    LET ok == GMT_Record_LoadArrays(file, valid, allocs).ok
    IN /\ ~initialized
       /\ GMT_Init_(ReplaySetup, ok)
       /\ Logged("Init", [ok |-> ok], 0)

LoadReset ==
  \E valid \in BOOLEAN, allocs \in 0..AllAllocs :
    /\ initialized
    /\ GMT_Reset_(valid, allocs)
    /\ Logged("Reset", [ok |-> GMT_Record_LoadArrays(file, valid, allocs).ok], 0)

LoadUpdate ==
  initialized /\ GMT_Update_(GMT_InputState_Clear) /\ Logged("Update", NoArgs, 0)

LoadQuit == initialized /\ GMT_Quit_ /\ Logged("Quit", NoArgs, 0)

NextLoad == SessionTick \/ LoadInit \/ LoadReset \/ LoadUpdate \/ LoadQuit

SpecLoad == InitLoad /\ [][NextLoad]_vars

\* ------------------------------------------- a replay that has fallen behind

\* Traces of more input records than one batch (and than two), no signals:
\* the first k records at timestamp 0, the others at MaxTs, every snapshot
\* different from the one before it.
BatchLens == {GMT__MAX_INJECT_BATCH + 1, 2 * GMT__MAX_INJECT_BATCH + 1}

BatchTraces ==
  UNION {{[i \in 1..n |-> [tag |-> "INPUT",
                           timestamp |-> IF i <= k THEN 0 ELSE MaxTs,
                           input |-> i % 2]] \o <<[tag |-> "END"]>>
          : k \in 0..n}
         : n \in BatchLens}

InitBatch == ZeroState /\ file \in BatchTraces /\ header = GMT_Record_OpenForWrite

\* One iteration of the injector thread.
BatchThread == GMT__ReplayThreadFunc /\ UNCHANGED logVars

NextBatch == Tick \/ StartReplay \/ Update \/ BatchThread \/ Reset

SpecBatch == InitBatch /\ [][NextBatch]_vars

\* -------------------------------------------- a run of failing assertions

\* A replay whose threshold is never reached, so that the failures go on.
AssertSetup == [mode |-> "REPLAY",
                fail_assertion_trigger_count |-> 2 * GMT_MAX_FAILED_ASSERTIONS,
                fail_callback |-> TRUE, signal_callback |-> FALSE,
                assertion_trigger_callback |-> FALSE]

\* The trace holds one TRACK record, of the value 0 for key 1.
AssertTrace == <<[tag |-> "TRACK", key |-> 1, index |-> 0, size |-> 4, data |-> 0],
                 [tag |-> "END"]>>

\* The runs go two failures past the capacity of the list, and count a few
\* assertions more than that.
MaxFailures == GMT_MAX_FAILED_ASSERTIONS + 2
MaxAsserts == GMT_MAX_FAILED_ASSERTIONS + 6

\* The list is nearly empty, or nearly full, or full.
AtEnds ==
  \/ assertion_fire_count <= 1
  \/ assertion_fire_count >= GMT_MAX_FAILED_ASSERTIONS - 1

\* Assertions counted that did not fail since the last reset.
Slack == total_assertion_count - assertion_fire_count

InitAssert == ZeroState /\ file = AssertTrace /\ header = GMT_Record_OpenForWrite

AssertInit == ~initialized /\ GMT_Init_(AssertSetup, TRUE) /\ UNCHANGED logVars

\* A failing assertion, anywhere in the run.
AssertFails ==
  /\ initialized
  /\ assertion_fire_count < MaxFailures /\ total_assertion_count < MaxAsserts
  /\ AssertCall(FALSE, 1)
  /\ UNCHANGED logVars

\* The other calls are made where the list is at one of its ends.
AssertPasses ==
  /\ initialized /\ AtEnds
  /\ Slack < MaxCalls /\ total_assertion_count < MaxAsserts
  /\ AssertCall(TRUE, 2)
  /\ UNCHANGED logVars

\* A tracked value that differs from the recorded one (the first call of a
\* frame), or has no record (the following calls).
AssertTrack ==
  /\ initialized /\ AtEnds
  /\ track_counter[1] < MaxCalls /\ total_assertion_count < MaxAsserts
  /\ GMT_Track_(1, 4, "INT", 1)
  /\ UNCHANGED logVars

AssertUpdate ==
  initialized /\ AtEnds /\ GMT_Update_(GMT_InputState_Clear) /\ UNCHANGED logVars

AssertClear == GMT_ClearFailedAssertions_ /\ UNCHANGED logVars

AssertReset ==
  /\ initialized /\ AtEnds
  /\ assertion_fire_count >= GMT_MAX_FAILED_ASSERTIONS - 1
       \/ total_assertion_count <= MaxCalls
  /\ GMT_Reset_(TRUE, AllAllocs)
  /\ UNCHANGED logVars

NextAssert ==
  \/ AssertInit \/ AssertFails \/ AssertPasses \/ AssertTrack
  \/ AssertUpdate \/ AssertClear \/ AssertReset

SpecAssert == InitAssert /\ [][NextAssert]_vars

\* ------------------------------------------------ failures without end

\* Sessions whose fail callback returns: a threshold below 1 and one of 2,
\* with and without a trigger callback.
FullSetups ==
  {[mode |-> "REPLAY", fail_assertion_trigger_count |-> t, fail_callback |-> TRUE,
    signal_callback |-> FALSE, assertion_trigger_callback |-> cb] :
     t \in {0, 2}, cb \in BOOLEAN}

InitFull == ZeroState /\ file = AssertTrace /\ header = GMT_Record_OpenForWrite

FullInit ==
  /\ ~initialized
  /\ \E cfg \in FullSetups : GMT_Init_(cfg, TRUE)
  /\ UNCHANGED logVars

\* A failing assertion. The log holds the steps of the call in the order
\* GMT_Assert_ makes them: the trigger callback after the unlock, then, if
\* the snapshot of the fire count has reached the threshold, GMT_Fail_.
FullAssert ==
  /\ initialized
  /\ assertion_fire_count < MaxFailures
  /\ AssertCall(FALSE, 1)
  /\ run_log' = <<AssertSteps(setup.assertion_trigger_callback)
                   \o (IF TriggerReached(assertion_fire_count + 1,
                                         setup.fail_assertion_trigger_count)
                       THEN FailSteps(setup.fail_callback) ELSE <<>>)>>
  /\ UNCHANGED rec_log

NextFull == FullInit \/ FullAssert

SpecFull == InitFull /\ [][NextFull]_vars

\* ------------------------------------------- the injector thread at work

\* One iteration of GMT__ReplayThreadFunc in its two parts. run_log holds
\* the thread's new_states[] / prev_states[] that are collected and not yet
\* injected.

\* The thread takes the lock, collects and releases the lock.
ThreadCollect ==
  LET c == GMT__CollectPendingInjections
  IN /\ ~aborted
     /\ Active /\ mode = "REPLAY"
     /\ run_log = <<>>
     /\ replay_input_cursor' = c.cursor
     /\ replay_prev_input' = c.prev
     /\ replay_current_input' = c.cur
     /\ waiting_for_signal' = c.waiting
     /\ waiting_signal_id' = c.wid
     /\ signal_wait_start' = c.wstart
     /\ run_log' = c.out
     /\ UNCHANGED <<sessionVars, frame_index, clockVars, record_start_time,
                    replay_time_offset, arrayVars, replay_signal_cursor, recordVars,
                    counterVars, assertVars, callVars, injected, rec_log, last>>

\* The thread, outside the lock, injects the next pair it holds.
ThreadInject ==
  /\ ~aborted
  /\ run_log # <<>>
  /\ injected' = Append(injected, Head(run_log))
  /\ run_log' = Tail(run_log)
  /\ UNCHANGED <<stateVars, clockVars, file, header, fail_calls, trigger_calls,
                 callVars, aborted, rec_log, last>>

NextRace == Tick \/ StartReplay \/ Update \/ ThreadCollect \/ ThreadInject

SpecRace == Init /\ [][NextRace]_vars

\* ------------------------------------------------------------------ claims

\* Signal j (1-based) has been reached by the application.
Synced(j) == j <= replay_signal_cursor

NextInputDue ==
  /\ replay_input_cursor < Len(replay_inputs)
  /\ replay_inputs[replay_input_cursor + 1].timestamp <= ReplayTime(now)

\* C1: in replay mode no input record whose timestamp is at or after the
\* timestamp of a recorded signal has been handed to inject_input while the
\* application has not yet emitted that signal as the next expected one.
C1_NoInputPastUnsyncedSignal ==
  \A e \in 1..Len(injected) : \A j \in 1..Len(replay_signals) :
    replay_signals[j].timestamp <= replay_inputs[injected[e].idx].timestamp
      => Synced(j)

\* C1 witness: the engine is gated on a signal the application has not
\* emitted, the clock has moved on since the gate was set, and an input
\* recorded at or after the signal is due in replay time but still pending.
C1_Witness ==
  /\ mode = "REPLAY" /\ waiting_for_signal /\ now > signal_wait_start
  /\ NextInputDue
  /\ replay_signal_cursor < Len(replay_signals)
  /\ replay_signals[replay_signal_cursor + 1].signal_id = waiting_signal_id
  /\ replay_signals[replay_signal_cursor + 1].timestamp
       <= replay_inputs[replay_input_cursor + 1].timestamp

\* C2: a sync_signal that matches the next expected recorded signal while
\* the engine is gated on that id releases the gate: the waiting flag is
\* cleared by the call.
C2_GateReleased ==
  [][(/\ mode = "REPLAY" /\ waiting_for_signal
      /\ replay_signal_cursor' = replay_signal_cursor + 1
      /\ replay_signals[replay_signal_cursor + 1].signal_id = waiting_signal_id)
     => ~waiting_for_signal']_vars

ExpectedCall(i) ==
  [idx |-> i, new |-> replay_inputs[i].input,
   prev |-> IF i = 1 THEN GMT_InputState_Clear ELSE replay_inputs[i - 1].input]

C3_InOrder ==
  (mode = "REPLAY" /\ replay_signals = <<>>) =>
    /\ Len(injected) = replay_input_cursor
    /\ \A i \in 1..Len(injected) : injected[i] = ExpectedCall(i)

C3_NoneLeft ==
  (Update /\ mode = "REPLAY" /\ replay_signals = <<>>) =>
    \/ replay_input_cursor' = Len(replay_inputs)
    \/ replay_inputs[replay_input_cursor' + 1].timestamp > ReplayTime(now)
    \/ replay_input_cursor' = replay_input_cursor + GMT__MAX_INJECT_BATCH

\* C3: replaying a trace of N input records and no signals, the calls of
\* inject_input are the recorded snapshots, each once and in file order,
\* the previous snapshot of each call being the new snapshot of the call
\* before it (the empty snapshot for the first); and an update leaves no
\* due record behind (short of the batch cap).
C3_RoundTrip == []C3_InOrder /\ [][C3_NoneLeft]_vars

C3_Witness ==
  /\ mode = "REPLAY" /\ replay_signals = <<>>
  /\ Len(replay_inputs) = MaxInputs /\ Len(injected) = MaxInputs

AllSignalsEmitted == initialized /\ replay_signal_cursor = Len(replay_signals)

AllInputsDue ==
  \A i \in 1..Len(replay_inputs) : replay_inputs[i].timestamp <= ReplayTime(now)

\* C4: once the application has emitted every recorded signal in order and
\* replay time has passed the last input record, the updates that keep
\* coming inject every input record: the input cursor reaches the count.
C4_EveryInputInjected ==
  (AllSignalsEmitted /\ AllInputsDue) ~> (replay_input_cursor = Len(replay_inputs))

\* The snapshots captured by the updates since init or reset, in order.
Captures(log) ==
  LET u == SelectSeq(log, LAMBDA e : e.op = "Update")
  IN [i \in 1..Len(u) |-> u[i].captured]

\* The snapshots of the INPUT records of the trace, in file order.
InputSnapshots(f) ==
  LET r == OfTag(f, "INPUT") IN [i \in 1..Len(r) |-> r[i].input]

\* One element for every run of equal consecutive elements of c; with
\* Skip, a first run equal to `base` gives none.
RECURSIVE Compress(_, _, _)
Compress(c, base, skip) ==
  IF c = <<>> THEN <<>>
  ELSE IF skip /\ Head(c) = base THEN Compress(Tail(c), base, TRUE)
  ELSE <<Head(c)>> \o Compress(Tail(c), Head(c), TRUE)

SameCall(a, b) ==
  /\ a.op = b.op
  /\ a.op \in {"Pin", "Track"} =>
       a.key = b.key /\ a.size = b.size /\ a.cmp = b.cmp /\ a.taken = b.taken

Aligned ==
  /\ mode = "REPLAY"
  /\ Len(run_log) <= Len(rec_log)
  /\ \A i \in 1..Len(run_log) : SameCall(run_log[i], rec_log[i])

\* C6: when the replay run makes the Pin calls of the record run, in the
\* same order in every tick, every replay Pin call leaves in the live
\* value the value stored by the corresponding call of the record run.
C6_PinRestoresRecorded ==
  Aligned =>
    \A i \in 1..Len(run_log) :
      (run_log[i].op = "Pin" /\ run_log[i].taken) => run_log[i].out = rec_log[i].in

\* The recorded entries a call with this key and index can be paired with.
Entries(arr, key, index) ==
  {i \in 1..Len(arr) : arr[i].key = key /\ arr[i].index = index}

First(S) == CHOOSE i \in S : \A j \in S : i <= j

Miss(arr, c) == Entries(arr, c.key, c.index) = {}

SizeMismatch(arr, c) ==
  /\ Entries(arr, c.key, c.index) # {}
  /\ arr[First(Entries(arr, c.key, c.index))].size # c.size

Differs(cmp, a, b) ==
  IF cmp \in {"FLOAT", "DOUBLE"} THEN Abs(a - b) >= UnitsPerEpsilon ELSE a # b

\* C7: when the replay run makes the Track calls of the record run, in the
\* same order in every tick, a replay Track call raises exactly one
\* assertion failure if its value differs (beyond epsilon for the float
\* kinds) from the value stored by the corresponding record call, and none
\* if it does not.
C7_TrackDetectsDivergence ==
  Aligned =>
    \A i \in 1..Len(run_log) :
      (run_log[i].op = "Track" /\ run_log[i].taken) =>
        run_log[i].fired =
          (IF Differs(run_log[i].cmp, rec_log[i].in, run_log[i].in) THEN 1 ELSE 0)

\* C8: a Pin call changes the live value only in replay mode and only when
\* a recorded entry with its (key, index) and its size exists; in record
\* mode, on a lookup miss, on a size mismatch (and when the call is
\* rejected) the live value is left as it was.
C8_PinFrame ==
  last.op = "Pin" =>
    /\ (last.out # last.in) =>
         /\ mode = "REPLAY" /\ last.taken
         /\ \E i \in Entries(replay_pins, last.key, last.index) :
              replay_pins[i].size = last.size
    /\ (\/ mode # "REPLAY" \/ ~last.taken
        \/ Miss(replay_pins, last) \/ SizeMismatch(replay_pins, last))
         => last.out = last.in

\* C8 witness: a replay Pin call met a recorded entry of another size that
\* holds other bytes than the live value, and the live value is unchanged.
C8_Witness ==
  /\ last.op = "Pin" /\ mode = "REPLAY" /\ last.taken
  /\ SizeMismatch(replay_pins, last)
  /\ replay_pins[First(Entries(replay_pins, last.key, last.index))].data # last.in
  /\ last.out = last.in

\* A step that is a Track call of the application.
TrackStep == run_log' = Append(run_log, last') /\ last'.op = "Track"

C10_ExtraTrackFails ==
  (/\ last.op = "Track" /\ mode = "REPLAY" /\ last.taken
   /\ Miss(replay_tracks, last))
    => last.fired = 1

\* A step of the session that is the call `name`.
OpStep(name) ==
  /\ run_log' # <<>>
  /\ run_log'[1].n = OpCount + 1
  /\ run_log'[1].op = name

\* The threshold in force: values <= 1 count as 1.
Threshold ==
  IF setup.fail_assertion_trigger_count <= 1 THEN 1
  ELSE setup.fail_assertion_trigger_count

FailNotInvoked ==
  fail_calls' = fail_calls /\ aborted' = aborted /\ test_failed' = test_failed

FailInvokedOnce ==
  /\ test_failed'
  /\ IF setup.fail_callback THEN fail_calls' = fail_calls + 1 /\ ~aborted'
     ELSE fail_calls' = fail_calls /\ aborted'

\* C11: with threshold n (values <= 1 treated as 1), an assertion failure
\* that is the k-th since init, reset or clear does not invoke fail when
\* k < n, and invokes fail exactly once when k = n.
C11_Threshold ==
  [][(OpStep("Assert") /\ Active /\ ~run_log'[1].args.condition) =>
       /\ (Failures' < Threshold) => FailNotInvoked
       /\ (Failures' = Threshold) => FailInvokedOnce]_vars

\* C11 witness: threshold 2; the first failure did not
\* invoke fail, and the second one has just invoked it, once.
C11_Witness ==
  /\ Active /\ setup.fail_assertion_trigger_count = 2
  /\ run_log # <<>> /\ run_log[1].op = "Assert" /\ ~run_log[1].args.condition
  /\ Failures = 2 /\ fail_calls = 1 /\ test_failed

\* C12: in replay mode a sync_signal whose id is not the next expected
\* recorded id, or that comes when every recorded signal is consumed,
\* leaves the signal cursor, the clock offset, the waiting flag and the
\* gated id unchanged, and returns (the default fail action is not taken).
C12_MismatchIgnored ==
  [][(/\ OpStep("SyncSignal") /\ Active /\ mode = "REPLAY"
      /\ \/ replay_signal_cursor >= Len(replay_signals)
         \/ replay_signals[replay_signal_cursor + 1].signal_id
              # run_log'[1].args.id)
     => /\ UNCHANGED <<replay_signal_cursor, replay_time_offset,
                       waiting_for_signal, waiting_signal_id, test_failed>>
        /\ ~aborted']_vars

\* C12 witness: the engine is gated on the next recorded signal, the clock
\* has moved on, and the application has just emitted another id.
C12_Witness ==
  /\ Active /\ mode = "REPLAY" /\ waiting_for_signal
  /\ now > signal_wait_start
  /\ run_log # <<>> /\ run_log[1].op = "SyncSignal"
  /\ replay_signal_cursor < Len(replay_signals)
  /\ run_log[1].args.id # replay_signals[replay_signal_cursor + 1].signal_id
  /\ run_log[1].args.id # waiting_signal_id

\* C12 witness, second case: every recorded signal is consumed and the
\* application has emitted one more.
C12_WitnessConsumed ==
  /\ Active /\ mode = "REPLAY"
  /\ replay_signal_cursor = Len(replay_signals) /\ replay_signals # <<>>
  /\ run_log # <<>> /\ run_log[1].op = "SyncSignal" /\ signal_calls >= 2

\* The operations that are ignored outside a recording or a replay.
GuardedOps == {"Update", "Reset", "Fail", "Assert", "SyncSignal", "Pin", "Track"}

\* A step that changes nothing of the session, of the trace on disk or of
\* the caller's data, and invokes neither a callback nor the injection.
NoOpStep ==
  /\ UNCHANGED <<stateVars, file, header, fail_calls, trigger_calls,
                 signal_calls, held_calls, injected, aborted>>
  /\ OpStep("Pin") => last'.out = last'.in
  /\ OpStep("Track") => last'.out = last'.in /\ last'.fired = 0

\* The configuration of an init call is absent, or its file operation
\* (opening the trace for writing, reading and parsing it) fails.
InitMustFail(args) ==
  \/ args.cfg = NullSetup
  \/ args.cfg # NullSetup /\ args.cfg.mode \in {"RECORD", "REPLAY"} /\ ~args.io_ok

Uninitialized ==
  /\ ~initialized /\ ~record_file
  /\ replay_inputs = <<>> /\ replay_signals = <<>>
  /\ replay_pins = <<>> /\ replay_tracks = <<>>

\* C13: init returns failure and the session stays uninitialized (flag
\* false, no open trace, no decoded arrays, every later operation a no-op)
\* when the configuration is absent, when the record trace cannot be
\* opened, or when the replay trace cannot be read or parsed.
C13_InitFailure ==
  /\ [][(OpStep("Init") /\ ~initialized /\ InitMustFail(run_log'[1].args))
          => (~last'.ret /\ Uninitialized')]_vars
  /\ [][(\E op \in GuardedOps : OpStep(op)) /\ Uninitialized
          => NoOpStep /\ Uninitialized']_vars

\* C13 witness: the init of the session has failed, and an update has been
\* called after it.
C13_Witness ==
  /\ Uninitialized /\ last.op = "Init" /\ ~last.ret
  /\ run_log # <<>> /\ run_log[1].op = "Update" /\ run_log[1].n = 2

\* C14: init called while a session is initialized returns failure and
\* leaves the session unchanged: mode, configuration, open trace or decoded
\* arrays, cursors, clock origin and offset, and counters keep their values.
C14_SecondInitRejected ==
  [][(OpStep("Init") /\ initialized)
       => (~last'.ret /\ UNCHANGED <<stateVars, file, header, injected>>)]_vars

\* C14 witness: a replay that has injected an input is given an init with
\* a record configuration whose file can be opened; the replay is as before.
C14_Witness ==
  /\ initialized /\ mode = "REPLAY" /\ replay_input_cursor > 0
  /\ run_log # <<>> /\ run_log[1].op = "Init"
  /\ run_log[1].args.cfg # NullSetup /\ run_log[1].args.cfg.mode = "RECORD"
  /\ run_log[1].args.io_ok /\ ~last.ret

\* The calls of inject_input since the replay (re)started are the records
\* of the trace up to the cursor, from the first, each with its predecessor.
ReinjectedFromFirst ==
  (Active /\ mode = "REPLAY") =>
    /\ Len(injected) = replay_input_cursor
    /\ \A i \in 1..Len(injected) : injected[i] = ExpectedCall(i)

ClearedBookkeeping ==
  /\ failed_assertions = <<>> /\ assertion_fire_count = 0
  /\ total_assertion_count = 0
  /\ seen_assertion_sites = {} /\ unique_assertion_count = 0

\* C16: reset clears the assertion bookkeeping as clear_failed_assertions
\* does: after a reset the failed-assertion list, the fire count, the total
\* evaluation count and the set and count of unique call sites are in the
\* state that clear_failed_assertions leaves.
C16_ResetClearsBookkeeping ==
  [][(OpStep("Reset") /\ Active) => ClearedBookkeeping']_vars

\* No session is running: before init, after quit, or in Disabled mode.
OutsideSession == ~initialized \/ mode = "DISABLED"

C17_WitnessAfterQuit ==
  /\ ~initialized /\ last.op = "Init" /\ last.ret
  /\ run_log # <<>> /\ run_log[1].op = "SyncSignal" /\ run_log[1].n >= 3

\* C18: the session lock is never held by the calling thread while the
\* external inject_input capability is invoked, on the update path as on
\* the injector thread: the due events are collected under the lock, the
\* lock is released, and only then is the injection performed.
C18_InjectOutsideLock == "inject_input" \notin held_calls

\* C19: the assertion trigger callback, the signal callback and the fail
\* callback are each invoked with the session lock not held by the
\* invoking thread.
C19_CallbacksOutsideLock ==
  held_calls \cap {"assertion_trigger_callback", "signal_callback",
                   "fail_callback"} = {}

\* C19 witness: each of the three callbacks has been invoked.
C19_Witness ==
  trigger_calls > 0 /\ signal_calls > 0 /\ fail_calls > 0

\* C20: a trace written by record mode is accepted by the header
\* validation of the replay loader: the magic stored in the 16-bit header
\* field equals the magic constant the loader compares it with, and
\* likewise the version, so init in replay mode succeeds on a file that
\* record mode produced.
C20_RecordedTraceLoads ==
  [][LoadRecorded =>
       /\ header.magic = GMT_RECORD_MAGIC /\ header.version = GMT_RECORD_VERSION
       /\ last'.ret /\ initialized' /\ mode' = "REPLAY"]_vars

\* The session holds no decoded array: no reference, no count.
NoDecodedArrays ==
  /\ replay_refs = {}
  /\ replay_inputs = <<>> /\ replay_signals = <<>>
  /\ replay_pins = <<>> /\ replay_tracks = <<>>

\* C21: after any failing load of a replay trace, at init or during reset,
\* whatever made it fail (magic, version, a truncated record, an unknown
\* tag, an allocation part-way through), the session holds no decoded
\* arrays: the four references are empty and the four counts are 0.
C21_NoHalfLoadedArrays ==
  [][((OpStep("Init") \/ OpStep("Reset")) /\ ~run_log'[1].args.ok)
       => NoDecodedArrays']_vars

\* A trace as tags and contents, in file order.
Project(f) ==
  [i \in 1..Len(f) |->
     CASE f[i].tag = "INPUT" -> <<"INPUT", f[i].input>>
       [] f[i].tag = "SIGNAL" -> <<"SIGNAL", f[i].signal_id>>
       [] f[i].tag \in {"PIN", "TRACK"} ->
            <<f[i].tag, <<f[i].key, f[i].size, f[i].data>>>>
       [] OTHER -> <<f[i].tag>>]

\* What the logged calls are to have written, in call order.
RECURSIVE Written(_)
Written(log) ==
  IF log = <<>> THEN <<>> ELSE log[1].wrote \o Written(Tail(log))

Closed(log) == \E i \in 1..Len(log) : log[i].op = "Quit"

NextInput == replay_inputs[replay_input_cursor + 1]
NextSignal == replay_signals[replay_signal_cursor + 1]
HaveInput == replay_input_cursor < Len(replay_inputs)
HaveSignal == replay_signal_cursor < Len(replay_signals)

\* C23: tie-break. When the next pending signal's timestamp is less than or
\* equal to the next pending input's timestamp and the signal is due, the
\* injector gates on the signal (waiting flag set, its id and the wait
\* start recorded) and leaves that input un-injected, its cursor where it
\* was.
C23_SignalWinsTie ==
  [][(/\ Update /\ mode = "REPLAY" /\ ~waiting_for_signal
      /\ HaveInput /\ HaveSignal
      /\ NextSignal.timestamp <= NextInput.timestamp
      /\ NextSignal.timestamp <= ReplayTime(now))
     => /\ waiting_for_signal'
        /\ waiting_signal_id' = NextSignal.signal_id
        /\ signal_wait_start' = now
        /\ replay_input_cursor' = replay_input_cursor
        /\ injected' = injected]_vars

\* C23 witness: the engine has just gated, after time 0 and after an
\* earlier injection, on a signal recorded at the very timestamp of the
\* next input, which is due and pending.
C23_Witness ==
  /\ mode = "REPLAY" /\ waiting_for_signal /\ signal_wait_start = now /\ now > 0
  /\ HaveInput /\ HaveSignal /\ replay_input_cursor > 0
  /\ NextSignal.signal_id = waiting_signal_id
  /\ NextSignal.timestamp = NextInput.timestamp
  /\ NextInput.timestamp <= ReplayTime(now)

\* C24: no input is injected before its time: an input record is collected
\* for injection only in an invocation where its timestamp is at most
\* replay_time = (now - origin) - offset, whatever updates, signals and
\* clock reconciliations came before.
C24_NotBeforeItsTime ==
  [][/\ \A i \in (replay_input_cursor + 1)..replay_input_cursor' :
          replay_inputs[i].timestamp
            <= (now - record_start_time) - replay_time_offset
     /\ \A e \in (Len(injected) + 1)..Len(injected') :
          replay_inputs[injected'[e].idx].timestamp
            <= (now - record_start_time) - replay_time_offset]_vars

\* C24 witness: after a reconciliation that moved the offset, an input
\* recorded after time 0 has been injected in the invocation in which
\* replay_time reached its timestamp, later than its timestamp on the
\* platform clock.
C24_Witness ==
  /\ mode = "REPLAY" /\ replay_time_offset > 0 /\ injected # <<>>
  /\ replay_inputs[injected[Len(injected)].idx].timestamp > 0
  /\ replay_inputs[injected[Len(injected)].idx].timestamp
       = (now - record_start_time) - replay_time_offset

\* The records an invocation took: those the input cursor passed.
Taken == replay_input_cursor' - replay_input_cursor

SeveralDue == Update /\ mode = "REPLAY" /\ Taken > 1

ReplayClock == (now - record_start_time) - replay_time_offset

\* The step is a sync_signal that emits the next expected signal.
SyncNext ==
  /\ initialized /\ mode = "REPLAY" /\ HaveSignal
  /\ GMT_SyncSignal_(NextSignal.signal_id)

Gated == waiting_for_signal /\ waiting_signal_id = NextSignal.signal_id

\* C26: late case. A matching sync_signal received while the engine is
\* gated increases the clock offset by exactly (now - wait_start), so
\* replay_time right after the call equals replay_time at the moment the
\* gate was set: the time spent gated does not advance the replay clock.
C26_LateCase ==
  [][(SyncNext /\ Gated) =>
       /\ replay_time_offset' = replay_time_offset + (now - signal_wait_start)
       /\ ReplayClock' = run_log[1].gate_time]_vars

\* The engine is gated on the next signal since the injector noticed it, or
\* is not gated at all.
FreshGate ==
  waiting_for_signal =>
    (Gated /\ run_log # <<>> /\ run_log[1].signal = replay_signal_cursor + 1)

\* C27: signal gating under drift. For a recorded signal at timestamp T
\* that the application reaches later than T, replay_time right after the
\* matching sync_signal equals T, whatever the time at which the injector
\* first noticed that the signal was due.
C27_ReplayTimeIsT ==
  [][(SyncNext /\ FreshGate /\ NextSignal.timestamp < ReplayClock)
       => ReplayClock' = NextSignal.timestamp]_vars

\* C28: early case. When the application emits the next expected signal
\* while the engine is not gated, the signal cursor advances by one and the
\* offset is adjusted so that replay_time right after the call equals the
\* signal's recorded timestamp, whether replay_time was before or after
\* that timestamp when the call was made.
C28_EarlyCase ==
  [][(SyncNext /\ ~waiting_for_signal) =>
       /\ replay_signal_cursor' = replay_signal_cursor + 1
       /\ ReplayClock' = NextSignal.timestamp]_vars

\* C28 witness: never gated, the application has emitted a signal when
\* replay_time was past its timestamp: the offset has grown and replay_time
\* is the timestamp.
C28_Witness ==
  /\ mode = "REPLAY" /\ ~waiting_for_signal /\ replay_signal_cursor = 1
  /\ replay_time_offset > 0
  /\ ReplayClock = replay_signals[1].timestamp

\* C28 witness, the signal emitted before its time: the offset has shrunk.
C28_WitnessBefore ==
  /\ mode = "REPLAY" /\ ~waiting_for_signal /\ replay_signal_cursor = 1
  /\ replay_time_offset < 0
  /\ ReplayClock = replay_signals[1].timestamp

\* An invocation of the injector: from GMT_Update_ or from its thread.
Injector == Update \/ BatchThread

\* The input records whose time has come and that were not consumed.
DueLeft ==
  {i \in (replay_input_cursor + 1)..Len(replay_inputs) :
     replay_inputs[i].timestamp <= ReplayClock}

\* The records one invocation has to take: the due ones, up to the cap.
BatchOf ==
  IF Cardinality(DueLeft) < GMT__MAX_INJECT_BATCH THEN Cardinality(DueLeft)
  ELSE GMT__MAX_INJECT_BATCH

C29_InOrder ==
  mode = "REPLAY" =>
    /\ Len(injected) = replay_input_cursor
    /\ \A i \in 1..Len(injected) : injected[i] = ExpectedCall(i)

C29_OneBatch ==
  (Injector /\ mode = "REPLAY") =>
    /\ replay_input_cursor' = replay_input_cursor + BatchOf
    /\ injected' = injected \o [j \in 1..BatchOf |-> ExpectedCall(replay_input_cursor + j)]

C29_WitnessPending ==
  /\ mode = "REPLAY"
  /\ replay_input_cursor = GMT__MAX_INJECT_BATCH
  /\ Len(injected) = GMT__MAX_INJECT_BATCH
  /\ DueLeft # {}

\* A call that fails an assertion: GMT_Assert_ with a false condition, or a
\* GMT_Track_ whose value differs from the recorded one.
Failure ==
  \/ AssertFails
  \/ AssertTrack /\ last'.fired = 1

Capped == IF assertion_fire_count < GMT_MAX_FAILED_ASSERTIONS
          THEN assertion_fire_count ELSE GMT_MAX_FAILED_ASSERTIONS

C30_StoredIsMin == Len(failed_assertions) = Capped

C30_EveryFailureCounted ==
  Failure =>
    /\ assertion_fire_count' = assertion_fire_count + 1
    /\ Len(failed_assertions') =
         IF Len(failed_assertions) < GMT_MAX_FAILED_ASSERTIONS
         THEN Len(failed_assertions) + 1 ELSE Len(failed_assertions)

\* C30: whatever assert, track, clear and reset calls were made, the number
\* of stored failed assertions is the smaller of the fire count and
\* GMT_MAX_FAILED_ASSERTIONS; every failure adds one to the fire count and
\* is stored only if the list was below its capacity.
C30_FailedCount == []C30_StoredIsMin /\ [][C30_EveryFailureCounted]_vars

\* More failures than the list holds: the list is full, the count went on.
C30_Witness ==
  /\ assertion_fire_count > GMT_MAX_FAILED_ASSERTIONS
  /\ Len(failed_assertions) = GMT_MAX_FAILED_ASSERTIONS

\* A mismatch of a tracked value was the failure that filled the list.
C30_WitnessTrack ==
  /\ assertion_fire_count = GMT_MAX_FAILED_ASSERTIONS
  /\ Len(failed_assertions) = GMT_MAX_FAILED_ASSERTIONS
  /\ failed_assertions[GMT_MAX_FAILED_ASSERTIONS] = "GMT_Track: value mismatch"

\* The positions of a call in the steps of a handler.
StepsOf(steps, name) == {i \in 1..Len(steps) : steps[i] = name}

C31_EveryFailure ==
  FullAssert =>
    /\ assertion_fire_count' = assertion_fire_count + 1
    /\ trigger_calls' = trigger_calls + (IF setup.assertion_trigger_callback THEN 1 ELSE 0)
    /\ Cardinality(StepsOf(run_log'[1], "assertion_trigger_callback"))
         = (IF setup.assertion_trigger_callback THEN 1 ELSE 0)
    /\ \A i \in StepsOf(run_log'[1], "assertion_trigger_callback"),
          j \in StepsOf(run_log'[1], "fail_callback") : i < j
    /\ IF assertion_fire_count + 1 >= Threshold
       THEN fail_calls' = fail_calls + 1 /\ test_failed'
       ELSE fail_calls' = fail_calls

\* C31: every assertion failure invokes the trigger callback, when one is
\* set, exactly once and before the threshold is looked at; a failure that
\* comes when the list of failed assertions is full, or when the threshold
\* was reached before and the fail callback has returned, still adds one to
\* the fire count and still invokes the fail callback.
C31_TriggerAndFail == [][C31_EveryFailure]_vars

\* The list is full, the threshold was passed long ago, and the failure just
\* made has invoked both callbacks once more.
C31_Witness ==
  /\ Len(failed_assertions) = GMT_MAX_FAILED_ASSERTIONS
  /\ assertion_fire_count > GMT_MAX_FAILED_ASSERTIONS
  /\ setup.assertion_trigger_callback
  /\ trigger_calls = assertion_fire_count
  /\ fail_calls = assertion_fire_count - (Threshold - 1)
  /\ Threshold = 2

\* The first END tag of a file (one past its end if it has none).
FirstEnd(f) ==
  CHOOSE k \in 1..(Len(f) + 1) :
    /\ k = Len(f) + 1 \/ f[k].tag = "END"
    /\ \A j \in 1..(k - 1) : f[j].tag # "END"

\* The records of one kind in front of the first END tag, in file order.
Kind(f, tag) == SelectSeq(SubSeq(f, 1, FirstEnd(f) - 1), LAMBDA r : r.tag = tag)

\* A decoded array holds the records `recs`, field by field.
Holds(arr, recs, fields) ==
  /\ Len(arr) = Len(recs)
  /\ \A i \in 1..Len(recs) : \A x \in fields : arr[i][x] = recs[i][x]

\* An init or a reset of a replay whose load has succeeded.
Loaded ==
  /\ OpStep("Init") \/ OpStep("Reset")
  /\ run_log'[1].args.ok

C32_DecodedAsWritten ==
  Loaded =>
    /\ Holds(replay_inputs', Kind(file, "INPUT"), {"timestamp", "input"})
    /\ Holds(replay_signals', Kind(file, "SIGNAL"), {"timestamp", "signal_id"})
    /\ Holds(replay_pins', Kind(file, "PIN"), {"key", "index", "size", "data"})
    /\ Holds(replay_tracks', Kind(file, "TRACK"), {"key", "index", "size", "data"})

\* C32: after a load that succeeded the decoded arrays are the INPUT,
\* SIGNAL, PIN and TRACK records in front of the first END tag of the file,
\* each kind in file order, as many as there are; what follows the END tag
\* is neither decoded nor a reason to fail the load.
C32_LoadedUpToEnd == [][C32_DecodedAsWritten]_vars

\* A file with all four kinds of record and with a record behind its END
\* tag has been loaded.
C32_Witness ==
  /\ mode = "REPLAY" /\ initialized
  /\ FirstEnd(file) < Len(file)
  /\ replay_inputs # <<>> /\ replay_signals # <<>>
  /\ replay_pins # <<>> /\ replay_tracks # <<>>
  /\ run_log # <<>> /\ run_log[1].op = "Reset" /\ run_log[1].args.ok

\* A file with something that is no record behind its END tag has been
\* loaded.
C32_WitnessUnknown ==
  /\ mode = "REPLAY" /\ initialized
  /\ file[Len(file)].tag = "UNKNOWN" /\ FirstEnd(file) = Len(file) - 1
  /\ replay_inputs # <<>>
  /\ run_log # <<>> /\ run_log[1].op = "Init" /\ run_log[1].args.ok

\* C33: every decoded Pin/Track record has a size of at most
\* GMT_MAX_DATA_RECORD_PAYLOAD, whatever the file declares: no more than
\* that is copied into a decoded record, and no lookup finds a larger size.
C33_DecodedSizeCapped ==
  /\ \A i \in 1..Len(replay_pins) : replay_pins[i].size <= GMT_MAX_DATA_RECORD_PAYLOAD
  /\ \A i \in 1..Len(replay_tracks) : replay_tracks[i].size <= GMT_MAX_DATA_RECORD_PAYLOAD

\* The steps of a handler that write cursors, counters, the decoded arrays
\* or the list of failed assertions.
WriteSteps == {"free_replay", "load_replay", "reset_statistics", "memset"}

\* The writes among `steps` that are made while the lock is not held.
WritesOutsideLock(steps) ==
  {i \in 1..Len(steps) :
     steps[i] \in WriteSteps /\ LockDepth(SubSeq(steps, 1, i - 1)) = 0}

\* C34: every write to the replay cursors, the counters and the list of
\* failed assertions is made with the session lock held by the writing
\* thread, in reset and in the teardown of quit as well (the decoded arrays
\* freed, the cursors zeroed, the session cleared).
C34_WritesUnderLock ==
  [][/\ (OpStep("Reset") /\ Active) => WritesOutsideLock(ResetSteps(mode)) = {}
     /\ (OpStep("Quit") /\ Active) => WritesOutsideLock(QuitSteps(mode)) = {}]_vars

\* The frees of `steps` that no stop of the injector thread precedes.
FreesWhileRunning(steps) ==
  {i \in StepsOf(steps, "free_replay") :
     \A j \in StepsOf(steps, "stop_replay_thread") : j > i}

\* C35: the decoded arrays are not freed while the injector thread runs:
\* quit and reset, the two paths that free them, stop and join the thread
\* first.
C35_StoppedBeforeFree ==
  [][/\ (OpStep("Reset") /\ Active /\ mode = "REPLAY")
          => FreesWhileRunning(ResetSteps(mode)) = {}
     /\ (OpStep("Quit") /\ Active /\ mode = "REPLAY")
          => FreesWhileRunning(QuitSteps(mode)) = {}]_vars

\* The positions in the trace of the records handed to inject_input, in the
\* order of the calls.
InjectedOrder == [i \in 1..Len(injected) |-> injected[i].idx]

\* Every record before the cursor was collected once, by the update path
\* (and injected) or by the thread (injected or held).
CollectedOnce ==
  LET taken == InjectedOrder \o [i \in 1..Len(run_log) |-> run_log[i].idx]
  IN /\ Len(taken) = replay_input_cursor
     /\ {taken[i] : i \in 1..Len(taken)} = 1..replay_input_cursor

\* C36: with the injector thread and the update path both at work in a
\* replay, every input record is collected by exactly one of them and the
\* calls of inject_input come in the order of the records: a batch collected
\* earlier is not injected after one collected later.
C36_InRecordedOrder ==
  mode = "REPLAY" =>
    /\ CollectedOnce
    /\ \A i \in 1..(Len(injected) - 1) : InjectedOrder[i] < InjectedOrder[i + 1]

\* The first update after a reset of a recording, capturing a snapshot that
\* is not the empty one.
FirstUpdateAfterReset ==
  /\ RecordUpdate
  /\ Len(run_log) = 1 /\ run_log[1].op = "Reset"
  /\ run_log'[2].captured # GMT_InputState_Clear

\* C39: after a reset in record mode the delta baseline is the empty
\* snapshot, as after init, and the first update after the reset writes an
\* INPUT record whenever it captures a snapshot that is not empty, also
\* when that snapshot is the last one written before the reset.
C39_ResetClearsBaseline ==
  [][/\ RecordReset => record_prev_input' = GMT_InputState_Clear
     /\ FirstUpdateAfterReset =>
          /\ Len(file') = Len(file) + 1
          /\ file'[Len(file')].tag = "INPUT"
          /\ file'[Len(file')].input = run_log'[2].captured]_vars

\* A step that starts or ends a session: the cursors start again.
NewSession == OpStep("Init") \/ OpStep("Reset") \/ OpStep("Quit")

C37_InRange ==
  mode = "REPLAY" =>
    /\ replay_input_cursor <= Len(replay_inputs)
    /\ replay_signal_cursor <= Len(replay_signals)

C37_Forward ==
  ~NewSession =>
    /\ replay_input_cursor' >= replay_input_cursor
    /\ replay_signal_cursor' >= replay_signal_cursor
    /\ replay_input_cursor' # replay_input_cursor =>
         /\ OpStep("Update") \/ OpStep("Thread")
         /\ replay_input_cursor' - replay_input_cursor = Len(injected') - Len(injected)
         /\ \A i \in (Len(injected) + 1)..Len(injected') :
              injected'[i].idx = replay_input_cursor + (i - Len(injected))
    /\ replay_signal_cursor' # replay_signal_cursor =>
         /\ OpStep("SyncSignal")
         /\ replay_signal_cursor < Len(replay_signals)
         /\ run_log'[1].args.id = replay_signals[replay_signal_cursor + 1].signal_id
         /\ replay_signal_cursor' = replay_signal_cursor + 1

\* C37: between resets neither cursor decreases or passes the number of its
\* records; the input cursor is moved only by the injector, by one for each
\* record it hands over, and the signal cursor only by a sync_signal whose
\* id is that of the signal at the cursor, by exactly one.
C37_CursorsForward == []C37_InRange /\ [][C37_Forward]_vars

\* Both cursors have moved to the end of their arrays; the last call was the
\* sync_signal that moved the signal cursor.
C37_Witness ==
  /\ mode = "REPLAY"
  /\ replay_input_cursor = 1 /\ replay_input_cursor = Len(replay_inputs)
  /\ replay_signal_cursor = 1 /\ replay_signal_cursor = Len(replay_signals)
  /\ run_log # <<>> /\ run_log[1].op = "SyncSignal"

\* C38: in a replay, whenever the waiting flag is set, the signal cursor is
\* in range and the gated id is the id of the recorded signal at the signal
\* cursor, whatever updates, sync_signal calls and resets were made.
C38_GateIsNextSignal ==
  (mode = "REPLAY" /\ waiting_for_signal) =>
    /\ replay_signal_cursor < Len(replay_signals)
    /\ waiting_signal_id = replay_signals[replay_signal_cursor + 1].signal_id

\* A step that is a Pin or a Track call; last' describes it.
DataStep == run_log' = Append(run_log, last') /\ last'.op \in {"Pin", "Track"}

\* The call is one the helpers turn away before the counter.
TurnedAway(c) ==
  c.in = NullPtr \/ c.size = 0 \/ c.size > GMT_MAX_DATA_RECORD_PAYLOAD

\* Only the counter of the call's helper moves, for the call's key, by one.
AdvancedByOne(c) ==
  LET mine == IF c.op = "Pin" THEN pin_counter ELSE track_counter
      mine2 == IF c.op = "Pin" THEN pin_counter' ELSE track_counter'
  IN /\ c.index = mine[c.key]
     /\ mine2 = [mine EXCEPT ![c.key] = @ + 1]
     /\ IF c.op = "Pin" THEN track_counter' = track_counter
        ELSE pin_counter' = pin_counter

C40_CounterStep ==
  (DataStep /\ Active) =>
    IF TurnedAway(last') THEN pin_counter' = pin_counter /\ track_counter' = track_counter
    ELSE AdvancedByOne(last')

\* C40: a Pin or Track call rejected for null data, zero size or a payload
\* above the cap leaves the per-tick counter of its key as it was, in record
\* and in replay; a call that passes these checks advances it by exactly
\* one, also when the replay lookup finds nothing or a record of another
\* size; so the calls that follow in the tick get the same indices in both
\* runs.
C40_RejectedKeepsCounter == [][C40_CounterStep]_vars

\* In a replay, a call was turned away and the next call of the tick for the
\* same key and helper took the index 0, which the recording gave it too.
C40_Witness ==
  /\ mode = "REPLAY" /\ Len(run_log) >= 2
  /\ LET a == run_log[Len(run_log) - 1]
         b == run_log[Len(run_log)]
     IN /\ a.op = "Pin" /\ b.op = "Pin" /\ a.key = b.key
        /\ TurnedAway(a) /\ ~TurnedAway(b)
        /\ b.index = 0 /\ pin_counter[b.key] = 1
        /\ \E i \in 1..Len(replay_pins) :
             replay_pins[i].key = b.key /\ replay_pins[i].index = 0

\* In a replay, a call that passed the checks found no record and has moved
\* the counter all the same.
C40_WitnessMiss ==
  /\ mode = "REPLAY" /\ run_log # <<>>
  /\ LET b == run_log[Len(run_log)]
     IN /\ b.op = "Track" /\ ~TurnedAway(b)
        /\ track_counter[b.key] = b.index + 1
        /\ \A i \in 1..Len(replay_tracks) :
             ~(replay_tracks[i].key = b.key /\ replay_tracks[i].index = b.index)

====
